---- MODULE Spec2Model ----
(***************************************************************************)
(* Retrieval and orchestration pipeline of the AI document assistant:      *)
(* the Redis-backed cache and sliding-window rate limiter, the tenant      *)
(* scoped search service, and the voice / text orchestrator.               *)
(*                                                                         *)
(* Python values are represented as follows.                               *)
(*   Optional[int]    None is <<>>, the integer n is <<n>>                 *)
(*   str              a sequence of characters (one-character strings)     *)
(*   f"{x}"           Str(x), a tagged copy of x; int(s) undoes it         *)
(*   sha256(...)      a tagged copy of its input (collision free)          *)
(*   pickle           dumps tags the value, loads removes the tag          *)
(*   time.time()      the variable now, in whole seconds                   *)
(***************************************************************************)
EXTENDS Integers, Sequences, FiniteSets, TLC

VARIABLES
    now,        \* wall clock, whole seconds (int(time.time()))
    ticks,      \* number of clock advances made so far
    redisUp,    \* whether the Redis server answers
    settings,   \* Settings(): default_rpm, default_burst, enable_fallback_llm
    zsets,      \* Redis sorted sets (rate-limit windows), by key
    kv,         \* Redis string keys (response / search / embedding cache)
    docs,       \* table doc: id -> row, for the ids created so far
    deleted,    \* ids of rows deleted from table doc
    recLog,     \* history: times of the record_request calls, by key
    lastCheck,  \* history: the check_rate_limit call just made, its result
    lastSearch, \* history: the search call just made and its result
    req,        \* the request in flight (or the last one finished)
    llm,        \* LLMService: its two circuit breakers, the last stream_chat
    cacheLog,   \* history: the last CacheService set call made for each key
    mmr,        \* history: the _mmr_rerank call just made and its result
    chunking,   \* Worker._chunk_text: the call in progress, its locals
    manager,    \* ConnectionManager: active_connections, audio_buffers
    handlers,   \* the websocket_audio handlers: position, session id, client
    embeddings, \* table embedding: the committed rows, the next id
    canEmbed,   \* ids of the documents whose chunks the embedding model takes
    queue,      \* Redis list worker:embed_tasks
    taskTable,  \* Redis hashes worker:task:<id>, by task id
    inflight,   \* asyncio tasks created by the worker loop and not yet run
    lastWork,   \* history: the worker operation just run and what it did
    workerPc,   \* _process_tasks: the next statement of the loop body
    callers,    \* requests that call the rate limiter: where each stands
    runs,       \* _embed_document coroutines: where each stands, its locals
    served      \* number of requests started so far

\* The state of the API services.
apiVars == <<now, ticks, redisUp, settings, zsets, kv, docs, deleted,
             recLog, lastCheck, lastSearch, req, served, llm, cacheLog, mmr>>

\* The state of the websocket route and of the background worker.
\* The coroutines that interleave at their awaits.
raceVars == <<callers, runs>>
tableVars == <<embeddings, canEmbed, queue, taskTable, inflight, lastWork, workerPc,
               raceVars>>
workerVars == <<manager, handlers, chunking, tableVars>>

vars == <<now, ticks, redisUp, settings, zsets, kv, docs, deleted,
          recLog, lastCheck, lastSearch, req, served, llm, cacheLog, mmr,
          workerVars>>

----------------------------------------------------------------------------
(* Bounds of the model *)

MaxTicks == 2
MaxRecords == 2
MaxDocs == 2
MaxRequests == 2
MaxTokens == 2
MaxStreak == 3
MaxCacheKeys == 2
MaxCallers == 3
MaxRuns == 2

(* Input domains *)

Orgs == {1, 2}
UserIds == {7}
TickSteps == {1, 59, 60}
Queries == {<<"hipaa">>, <<"what", "is", "micro">>}
DocTexts == {<<"hipaa", "rules">>}
DocTitles == {<<"policy">>}
Ks == {1, 2}
\* What the users of the orchestrator say or type, and the tokens of a model
Transcripts == {<<"hipaa">>}
Tokens == {<<"O", "K">>}
\* str(e) of the exceptions the transcriber catches: some have no message
SttErrors == {"", "model failed"}
RpmChoices == {1, 2}
BurstChoices == {1, 2}
\* The (org_id, user_id) pairs the rate limiter is called with on its own:
\* a key with and a key without the user part.
RateCallers == {<<<<1>>, <<>>>>, <<<<1>>, <<7>>>>}

----------------------------------------------------------------------------
(* Python values *)

None == <<>>
Some(x) == <<x>>
Truthy(o) == o # None /\ o[1] # 0
Or(o, d) == IF Truthy(o) THEN o[1] ELSE d
Str(x) == <<"str", x>>
ParseInt(s) == s[2]
Max(a, b) == IF a >= b THEN a ELSE b

Min(a, b) == IF a <= b THEN a ELSE b
Take(s, n) == SubSeq(s, 1, Min(n, Len(s)))
Range(s) == {s[i] : i \in 1..Len(s)}
\* len(word) of the words used
WordLen == [w \in {"hipaa", "rules", "micro", "services", "policy",
                   "what", "is", "the"} |->
              CASE w \in {"hipaa", "rules", "micro"} -> 5
                [] w = "services" -> 8
                [] w = "policy" -> 6
                [] w = "what" -> 4
                [] w = "the" -> 3
                [] OTHER -> 2]
\* pickle.dumps / pickle.loads
pickle_dumps(v) == <<"pickle", v>>
pickle_loads(b) == b[2]

OptOrgs == {None, Some(0)} \cup {Some(o) : o \in Orgs}
OptUsers == {None} \cup {Some(u) : u \in UserIds}

----------------------------------------------------------------------------
(* Redis sorted sets: a set of [member, score] with distinct members, and   *)
(* the key's expiry time (None: no expiry set).                             *)

EmptyZ == [members |-> {}, expireAt |-> None]

ZLive(z) ==
    IF z.expireAt # None /\ z.expireAt[1] <= now THEN EmptyZ ELSE z

ZRemRangeByScoreExclusive(z, lo, hi) ==
    LET kept == {e \in z.members : ~(lo <= e.score /\ e.score < hi)}
    IN IF kept = {} THEN EmptyZ ELSE [z EXCEPT !.members = kept]

ZRemRangeByScore(z, lo, hi) ==
    LET kept == {e \in z.members : ~(lo <= e.score /\ e.score <= hi)}
    IN IF kept = {} THEN EmptyZ ELSE [z EXCEPT !.members = kept]

ZCard(z) == Cardinality(z.members)

ZAdd(z, member, score) ==
    [z EXCEPT !.members = {e \in z.members : e.member # member}
                            \cup {[member |-> member, score |-> score]}]

Expire(z, seconds) ==
    IF z.members = {} THEN z ELSE [z EXCEPT !.expireAt = Some(now + seconds)]

\* zrange(key, 0, -1): the members by ascending score; only its first
\* element is read by the callers.
ZRangeFirst(z) ==
    CHOOSE e \in z.members : \A f \in z.members : e.score <= f.score

----------------------------------------------------------------------------
(* RateLimitService *)

RateKey(org_id, user_id) ==
    IF Truthy(user_id)
    THEN <<"rate_limit", Str(org_id), Str(user_id)>>
    ELSE <<"rate_limit", Str(org_id)>>

RateKeys == {RateKey(o, u) : o \in OptOrgs, u \in OptUsers}

get_org_rate_limits(org_id) ==
    [rpm |-> settings.default_rpm, burst |-> settings.default_burst]

\* The pipeline of check_rate_limit: the sorted set after it has run.
CheckPipeline(z) ==
    Expire(ZRemRangeByScore(ZLive(z), 0, now - 60), 120)

\* check_rate_limit(org_id, user_id, rpm, burst) on the sorted set z:
\* (allowed, remaining, reset_time).
check_rate_limit(z, org_id, rpm_arg, burst_arg) ==
    LET org == get_org_rate_limits(org_id)
        rpm == IF rpm_arg = None \/ burst_arg = None
               THEN Or(rpm_arg, org.rpm) ELSE rpm_arg[1]
        burst == IF rpm_arg = None \/ burst_arg = None
                 THEN Or(burst_arg, org.burst) ELSE burst_arg[1]
        after == CheckPipeline(z)
        current_requests == ZCard(after)
        has == after.members # {}
        oldest == IF has THEN ParseInt(ZRangeFirst(after).member) ELSE 0
        denied == [allowed |-> FALSE, remaining |-> 0,
                   reset_time |-> 60 - (IF has THEN now - oldest ELSE 0)]
    IN IF current_requests >= burst /\ ~(has /\ now - oldest >= 60)
       THEN denied
       ELSE IF current_requests >= rpm /\ ~(has /\ now - oldest >= 60)
       THEN denied
       ELSE [allowed |-> TRUE,
             remaining |-> Max(0, rpm - current_requests),
             reset_time |-> 60 - (now - (now - 60))]

\* record_request(org_id, user_id) on the sorted set z.
record_request(z) ==
    Expire(ZAdd(ZLive(z), Str(now), now), 120)

----------------------------------------------------------------------------
(* Redis string keys: key -> [data, expireAt] *)

RedisGet(store, key) ==
    IF key \in DOMAIN store
         /\ (store[key].expireAt = None \/ store[key].expireAt[1] > now)
    THEN Some(store[key].data) ELSE None

RedisPut(store, key, entry) ==
    [x \in DOMAIN store \cup {key} |-> IF x = key THEN entry ELSE store[x]]

RedisSetEx(store, key, ttl, data) ==
    RedisPut(store, key, [data |-> data, expireAt |-> Some(now + ttl)])

RedisSet(store, key, data) ==
    RedisPut(store, key, [data |-> data, expireAt |-> None])

----------------------------------------------------------------------------
(* CacheService *)

response_cache_ttl == 86400
search_cache_ttl == 3600

_hash_key(data) == <<"sha256", data>>

\* A response key without the organization in it.
ResponseKeyShared(query, org_id) == <<"response_cache", _hash_key(query)>>
ResponseKey(query, org_id) == <<"response_cache", Str(org_id), _hash_key(query)>>
EmbeddingKey(text) == <<"embedding_cache", _hash_key(text)>>
SearchKey(query, org_id) == <<"search_cache", Str(org_id), _hash_key(query)>>

\* A lookup that never finds the entry.
get_response_cache_miss(store, query, org_id) == None
get_response_cache(store, query, org_id) ==
    LET data == RedisGet(store, ResponseKey(query, org_id))
    IN IF data # None THEN Some(pickle_loads(data[1])) ELSE None

\* set_response_cache(query, response, org_id, ttl)
set_response_cache_ttl(store, query, response, org_id, ttl) ==
    RedisSetEx(store, ResponseKey(query, org_id), Or(ttl, response_cache_ttl),
               pickle_dumps(response))

\* set_response_cache(query, response, org_id)
set_response_cache(store, query, response, org_id) ==
    set_response_cache_ttl(store, query, response, org_id, None)

get_embedding_cache(store, text) ==
    LET data == RedisGet(store, EmbeddingKey(text))
    IN IF data # None THEN Some(pickle_loads(data[1])) ELSE None

set_embedding_cache(store, text, embedding) ==
    RedisSet(store, EmbeddingKey(text), pickle_dumps(embedding))

get_search_cache(store, query, org_id) ==
    LET data == RedisGet(store, SearchKey(query, org_id))
    IN IF data # None THEN Some(pickle_loads(data[1])) ELSE None

\* set_search_cache(query, doc_ids, org_id, ttl)
set_search_cache_ttl(store, query, doc_ids, org_id, ttl) ==
    RedisSetEx(store, SearchKey(query, org_id), Or(ttl, search_cache_ttl),
               pickle_dumps(doc_ids))

\* set_search_cache(query, doc_ids, org_id)
set_search_cache(store, query, doc_ids, org_id) ==
    set_search_cache_ttl(store, query, doc_ids, org_id, None)

----------------------------------------------------------------------------
(* VectorizerService.get_embedding: the embedding (None on failure) and the *)
(* store after the call.  model_ok: whether the model produces a vector.    *)

get_embedding(store, text, model_ok) ==
    LET cached == get_embedding_cache(store, text)
        embedding == IF model_ok THEN Some(<<"vec", text>>) ELSE None
    IN IF cached # None /\ cached[1] # <<>>
       THEN [value |-> cached, kv |-> store]
       ELSE IF embedding # None
       THEN [value |-> embedding,
             kv |-> set_embedding_cache(store, text, embedding[1])]
       ELSE [value |-> None, kv |-> store]

----------------------------------------------------------------------------
(* Table doc *)

LiveIds == (1..Len(docs)) \ deleted

RECURSIVE Descending(_)
Descending(S) ==
    IF S = {} THEN <<>>
    ELSE LET m == CHOOSE m \in S : \A x \in S : x <= m
         IN <<m>> \o Descending(S \ {m})

\* ILIKE '%term%' on a text: none of the words used contains another.
ILike(text, term) == term \in Range(text)

Orderings(S) ==
    {p \in [1..Cardinality(S) -> S] : \A i, j \in DOMAIN p : i # j => p[i] # p[j]}

----------------------------------------------------------------------------
(* SearchService *)

stop_words ==
    {"the", "a", "an", "and", "or", "but", "in", "on", "at", "to", "for",
     "of", "with", "by", "is", "are", "was", "were", "be", "been", "have",
     "has", "had", "do", "does", "did", "will", "would", "could", "should",
     "may", "might", "can", "what", "how", "why", "when", "where", "who"}

IsSearchTerm(word) == word \notin stop_words /\ WordLen[word] > 2

\* _text_search with the organization condition left out of the query.
text_search_any_org(query_text, k, org_id) ==
    IF ~Truthy(org_id) THEN <<>>
    ELSE
    LET search_terms == SelectSeq(query_text, IsSearchTerm)
        terms == Range(Take(search_terms, 3))
        rows == {id \in LiveIds :
                   terms # {} =>
                        \E t \in terms : \/ ILike(docs[id].title, t)
                                         \/ ILike(docs[id].text, t)}
    IN [i \in 1..Min(k, Cardinality(rows)) |->
          LET id == Descending(rows)[i]
          IN [id |-> id, score |-> "0.5", snippet |-> docs[id].text,
              doc_id |-> id, title |-> docs[id].title]]

\* _text_search(query_text, k, org_id): the rows of the organization that
\* match one of the first three search terms, newest first, at most k.
_text_search(query_text, k, org_id) ==
    IF ~Truthy(org_id) THEN <<>>
    ELSE
    LET search_terms == SelectSeq(query_text, IsSearchTerm)
        terms == Range(Take(search_terms, 3))
        rows == {id \in LiveIds :
                   /\ docs[id].org_id = org_id[1]
                   /\ terms # {} =>
                        \E t \in terms : \/ ILike(docs[id].title, t)
                                         \/ ILike(docs[id].text, t)}
    IN [i \in 1..Min(k, Cardinality(rows)) |->
          LET id == Descending(rows)[i]
          IN [id |-> id, score |-> "0.5", snippet |-> docs[id].text,
              doc_id |-> id, title |-> docs[id].title]]

\* _vector_search: vector search is disabled, the text search stands in.
_vector_search(k, org_id, query_text) == _text_search(query_text, k, org_id)

\* _get_documents_by_ids(doc_ids): the rows whose id is in doc_ids, in the
\* order the database returns them: the query has no ORDER BY, and scan is
\* the order in which the database yields the rows it selects.
_get_documents_by_ids(doc_ids, scan) ==
    LET InList(id) == id \in Range(doc_ids) /\ id \in LiveIds
        ids == SelectSeq(scan, InList)
    IN [i \in 1..Len(ids) |->
          [id |-> ids[i], title |-> docs[ids[i]].title,
           text |-> docs[ids[i]].text, similarity |-> "1.0"]]

\* Results formatted without the title of the row.
format_search_results_untitled(results) ==
    [i \in 1..Len(results) |->
       [id |-> results[i].id, score |-> results[i].similarity,
        snippet |-> results[i].text, doc_id |-> results[i].id,
        title |-> <<"Untitled">>]]
\* _format_search_results; the texts used are shorter than max_length, so
\* _create_snippet returns them whole.
_format_search_results(results) ==
    [i \in 1..Len(results) |->
       [id |-> results[i].id, score |-> results[i].similarity,
        snippet |-> results[i].text, doc_id |-> results[i].id,
        title |-> results[i].title]]

\* The rows a cache hit of search(query, k, org_id) selects.
CachedRows(store, query, k, org_id) ==
    LET cached_results == get_search_cache(store, query, org_id)
    IN IF redisUp /\ cached_results # None
       THEN Range(Take(cached_results[1], k)) \cap LiveIds ELSE {}

\* search raising when the query has no embedding.
search_raises_without_embedding(store, query, k, org_id, model_ok, scan) ==
    IF ~redisUp
    THEN [outcome |-> "raised", results |-> <<>>, kv |-> store,
          path |-> "none", calls |-> <<"get_search_cache">>]
    ELSE
    LET cached_results == get_search_cache(store, query, org_id)
        emb == get_embedding(store, query, model_ok)
        similar_embeddings == _vector_search(k * 2, org_id, query)
        reranked_results == Take(similar_embeddings, k)
        doc_ids == [i \in 1..Len(reranked_results) |-> reranked_results[i].doc_id]
    IN IF cached_results # None /\ cached_results[1] # <<>>
       THEN [outcome |-> "returned",
             results |-> _format_search_results(
                 _get_documents_by_ids(Take(cached_results[1], k), scan)),
             kv |-> store, path |-> "cache",
             calls |-> <<"get_search_cache", "_get_documents_by_ids">>]
       ELSE IF emb.value = None \/ emb.value[1] = <<>>
       THEN [outcome |-> "raised", results |-> <<>>, kv |-> emb.kv,
             path |-> "no_embedding",
             calls |-> <<"get_search_cache", "get_embedding">>]
       ELSE IF similar_embeddings = <<>>
       THEN [outcome |-> "returned", results |-> <<>>, kv |-> emb.kv,
             path |-> "empty",
             calls |-> <<"get_search_cache", "get_embedding", "_text_search">>]
       ELSE [outcome |-> "returned", results |-> reranked_results,
             kv |-> set_search_cache(emb.kv, query, doc_ids, org_id),
             path |-> "fresh",
             calls |-> <<"get_search_cache", "get_embedding", "_text_search",
                         "set_search_cache">>]
\* search(query, k, org_id): what it returns or that it raised, the store
\* after it, and the calls it made.  Every cache call raises when Redis does
\* not answer.
search(store, query, k, org_id, model_ok, scan) ==
    IF ~redisUp
    THEN [outcome |-> "raised", results |-> <<>>, kv |-> store,
          path |-> "none", calls |-> <<"get_search_cache">>]
    ELSE
    LET cached_results == get_search_cache(store, query, org_id)
        emb == get_embedding(store, query, model_ok)
        similar_embeddings == _vector_search(k * 2, org_id, query)
        reranked_results == Take(similar_embeddings, k)
        doc_ids == [i \in 1..Len(reranked_results) |-> reranked_results[i].doc_id]
    IN IF cached_results # None /\ cached_results[1] # <<>>
       THEN [outcome |-> "returned",
             results |-> _format_search_results(
                 _get_documents_by_ids(Take(cached_results[1], k), scan)),
             kv |-> store, path |-> "cache",
             calls |-> <<"get_search_cache", "_get_documents_by_ids">>]
       ELSE IF emb.value = None \/ emb.value[1] = <<>>
       THEN [outcome |-> "returned", results |-> <<>>, kv |-> emb.kv,
             path |-> "no_embedding",
             calls |-> <<"get_search_cache", "get_embedding">>]
       ELSE IF similar_embeddings = <<>>
       THEN [outcome |-> "returned", results |-> <<>>, kv |-> emb.kv,
             path |-> "empty",
             calls |-> <<"get_search_cache", "get_embedding", "_text_search">>]
       ELSE [outcome |-> "returned", results |-> reranked_results,
             kv |-> set_search_cache(emb.kv, query, doc_ids, org_id),
             path |-> "fresh",
             calls |-> <<"get_search_cache", "get_embedding", "_text_search",
                         "set_search_cache">>]

----------------------------------------------------------------------------
(* SearchService._mmr_rerank *)

\* Floats as the function computes with them: an exact fraction <<n, d>> with
\* d > 0, or nan (what numpy gives for 0 / 0).  Ties are those of the exact
\* values.
NaN == <<0, 0>>
IsNaN(x) == x[2] = 0
Abs(n) == IF n < 0 THEN -n ELSE n

RECURSIVE Gcd(_, _)
Gcd(a, b) == IF b = 0 THEN a ELSE Gcd(b, a % b)

\* n / d in lowest terms.
Frac(n, d) ==
    IF d = 0 THEN NaN
    ELSE LET g == Gcd(Abs(n), Abs(d))
             sign == IF d < 0 THEN -1 ELSE 1
         IN <<sign * (n \div g), sign * (d \div g)>>

FGt(x, y) == ~IsNaN(x) /\ ~IsNaN(y) /\ x[1] * y[2] > y[1] * x[2]
FAdd(x, y) == IF IsNaN(x) \/ IsNaN(y) THEN NaN
              ELSE Frac(x[1] * y[2] + y[1] * x[2], x[2] * y[2])
FSub(x, y) == IF IsNaN(x) \/ IsNaN(y) THEN NaN
              ELSE Frac(x[1] * y[2] - y[1] * x[2], x[2] * y[2])
FMul(x, y) == IF IsNaN(x) \/ IsNaN(y) THEN NaN
              ELSE Frac(x[1] * y[1], x[2] * y[2])

\* self.mmr_lambda, in tenths.
mmr_lambda == 7
Lambdas == {0, 5, mmr_lambda, 10}

\* A candidate's "vector" is a list of numbers, or a string json.loads
\* rejects (Malformed).  The vectors have a whole-number norm, so that every
\* cosine is a fraction.
Malformed == <<>>
Vectors == {<<1, 0>>, <<2, 0>>, <<0, 1>>, <<3, 4>>, <<4, 3>>, <<0, 0>>}
QueryVectors == {<<1, 0>>, <<3, 4>>, <<0, 0>>}
Dot(a, b) == a[1] * b[1] + a[2] * b[2]
Norm(v) == CHOOSE n \in 0..Dot(v, v) : n * n = Dot(v, v)

\* np.dot(a, b) / (np.linalg.norm(a) * np.linalg.norm(b))
Cosine(a, b) == Frac(Dot(a, b), Norm(a) * Norm(b))

\* max(values): the position of the first value no later value is greater
\* than, comparing with > as Python does (never true with nan).
RECURSIVE MaxFrom(_, _, _)
MaxFrom(values, i, best) ==
    IF i > Len(values) THEN best
    ELSE MaxFrom(values, i + 1, IF FGt(values[i], values[best]) THEN i ELSE best)

MaxPos(values) == MaxFrom(values, 2, 1)

\* np.argmax(values): the first nan if there is one, else the first maximum.
ArgMaxFirst(values) == 1
ArgMax(values) ==
    IF \E i \in 1..Len(values) : IsNaN(values[i])
    THEN CHOOSE i \in 1..Len(values) :
            /\ IsNaN(values[i])
            /\ \A j \in 1..(i - 1) : ~IsNaN(values[j])
    ELSE MaxPos(values)

Remove(seq, x) == SelectSeq(seq, LAMBDA y : y # x)

\* mmr_score of candidate idx against the documents selected so far.
MmrScore(idx, selected, similarities_to_query, candidate_vectors, lambda) ==
    LET relevance == similarities_to_query[idx]
        similarities_to_selected ==
            [s \in 1..Len(selected) |->
                Cosine(candidate_vectors[idx], candidate_vectors[selected[s]])]
        diversity == FSub(<<1, 1>>,
                          similarities_to_selected[MaxPos(similarities_to_selected)])
    IN FAdd(FMul(<<lambda, 10>>, relevance), FMul(<<10 - lambda, 10>>, diversity))

\* The selection loop, rounds iterations left.  An index of remaining beyond
\* the parsed vectors raises IndexError.
RECURSIVE MmrSelect(_, _, _, _, _, _)
MmrSelect(selected, remaining, rounds, similarities_to_query, candidate_vectors, lambda) ==
    IF rounds <= 0 \/ remaining = <<>>
    THEN [raised |-> FALSE, selected |-> selected]
    ELSE IF \E r \in 1..Len(remaining) : remaining[r] > Len(candidate_vectors)
    THEN [raised |-> TRUE, selected |-> selected]
    ELSE LET mmr_scores ==
                 [r \in 1..Len(remaining) |->
                     MmrScore(remaining[r], selected, similarities_to_query,
                              candidate_vectors, lambda)]
             best_idx == remaining[MaxPos(mmr_scores)]
         IN MmrSelect(Append(selected, best_idx), Remove(remaining, best_idx),
                      rounds - 1, similarities_to_query, candidate_vectors, lambda)

\* _mmr_rerank(query_vector, candidates, k) with self.mmr_lambda = lambda / 10:
\* the list it returns, or that it raised.  Indexes count from 1.
_mmr_rerank(query_vector, candidates, k, lambda) ==
    IF candidates = <<>> THEN [raised |-> FALSE, results |-> <<>>]
    ELSE
    LET all_vectors == [i \in 1..Len(candidates) |-> candidates[i].vector]
        candidate_vectors == SelectSeq(all_vectors, LAMBDA v : v # Malformed)
    IN IF candidate_vectors = <<>> THEN [raised |-> FALSE, results |-> <<>>]
       ELSE
       LET similarities_to_query ==
               [i \in 1..Len(candidate_vectors) |->
                   Cosine(query_vector, candidate_vectors[i])]
           first_idx == ArgMax(similarities_to_query)
           remaining == Remove([i \in 1..Len(candidates) |-> i], first_idx)
           loop == MmrSelect(<<first_idx>>, remaining,
                             Min(k - 1, Len(remaining)),
                             similarities_to_query, candidate_vectors, lambda)
       IN IF loop.raised THEN [raised |-> TRUE, results |-> <<>>]
          ELSE [raised |-> FALSE,
                results |->
                  [s \in 1..Len(loop.selected) |->
                     LET idx == loop.selected[s]
                     IN [id |-> candidates[idx].id,
                         vector |-> candidates[idx].vector,
                         mmr_score |-> similarities_to_query[idx]]]]

----------------------------------------------------------------------------
(* pybreaker.CircuitBreaker as LLMService uses it *)

primary_fail_max == 3
primary_reset_timeout == 60
fallback_fail_max == 2
fallback_reset_timeout == 30

ClosedBreaker == [state |-> "closed", fail_counter |-> 0, opened_at |-> None]

\* breaker.call(func): func is called unless the breaker is open and its
\* reset timeout has not elapsed; an exception of func that is not excluded
\* counts as a failure, anything else as a success. raises: whether the call
\* of func raises; excluded: whether the exception is one of exclude=[...].
BreakerCall(b, fail_max, reset_timeout, raises, excluded) ==
    LET rejected == /\ b.state = "open"
                    /\ b.opened_at # None
                    /\ now < b.opened_at[1] + reset_timeout
        entered == IF b.state = "open" THEN [b EXCEPT !.state = "half-open"]
                   ELSE b
        counted == [entered EXCEPT !.fail_counter = @ + 1]
        opened == [counted EXCEPT !.state = "open", !.opened_at = Some(now)]
    IN IF rejected
       THEN [breaker |-> b, result |-> "CircuitBreakerError", called |-> FALSE]
       ELSE IF raises /\ ~excluded
       THEN IF entered.state = "half-open"
                 \/ counted.fail_counter >= fail_max
            THEN [breaker |-> opened, result |-> "CircuitBreakerError",
                  called |-> TRUE]
            ELSE [breaker |-> counted, result |-> "raised", called |-> TRUE]
       ELSE [breaker |-> [entered EXCEPT !.state = "closed",
                                         !.fail_counter = 0],
             result |-> IF raises THEN "raised" ELSE "returned",
             called |-> TRUE]

----------------------------------------------------------------------------
(* LLMService *)

ErrorPrefix == <<"E", "r", "r", "o", "r", ":">>

\* The token stream_chat yields when no model answered.
ErrorToken ==
    ErrorPrefix \o <<" Unable to generate response. Please try again later.">>

\* What the provider does with one request for a model: it streams the
\* answer, fails before or after the first token, or refuses the key.
ProviderOutcomes == {"answers", "fails", "fails_late", "AuthenticationError"}

ProviderTokens(outcome) ==
    CASE outcome = "answers" -> <<<<"O", "K">>>>
      [] outcome = "fails_late" -> <<<<"O", "K">>>>
      [] OTHER -> <<>>

\* _stream_with_model: the breaker wraps _make_request, an async generator
\* function: calling it only builds the generator and never raises, and the
\* provider is called when the generator is iterated, outside the breaker.
_stream_with_model(breaker, fail_max, reset_timeout, outcome) ==
    LET made == BreakerCall(breaker, fail_max, reset_timeout, FALSE, FALSE)
    IN IF made.result = "CircuitBreakerError"
       THEN [breaker |-> made.breaker, tokens |-> <<>>, failed |-> TRUE,
             provider_called |-> FALSE]
       ELSE [breaker |-> made.breaker, tokens |-> ProviderTokens(outcome),
             failed |-> outcome # "answers", provider_called |-> TRUE]

\* stream_chat goes to the fallback model whatever the setting says.
stream_chat_always_fallback(l, primary_outcome, fallback_outcome) ==
    LET p == _stream_with_model(l.primary, primary_fail_max,
                                primary_reset_timeout, primary_outcome)
        f == _stream_with_model(l.fallback, fallback_fail_max,
                                fallback_reset_timeout, fallback_outcome)
    IN IF ~p.failed
       THEN [primary |-> p.breaker, fallback |-> l.fallback,
             tokens |-> p.tokens, raised |-> FALSE,
             models |-> <<"primary">>, primary_failed |-> FALSE,
             provider_calls |-> <<"primary">>]
       ELSE [primary |-> p.breaker, fallback |-> f.breaker,
             tokens |-> p.tokens \o f.tokens
                          \o (IF f.failed THEN <<ErrorToken>> ELSE <<>>),
             raised |-> FALSE,
             models |-> <<"primary", "fallback">>, primary_failed |-> TRUE,
             provider_calls |->
                 (IF p.provider_called THEN <<"primary">> ELSE <<>>)
                   \o (IF f.provider_called THEN <<"fallback">> ELSE <<>>)]
\* stream_chat(messages): the tokens it yields, whether it raised, the models
\* it tried, the provider requests made, and the breakers afterwards.
stream_chat(l, primary_outcome, fallback_outcome) ==
    LET p == _stream_with_model(l.primary, primary_fail_max,
                                primary_reset_timeout, primary_outcome)
        f == _stream_with_model(l.fallback, fallback_fail_max,
                                fallback_reset_timeout, fallback_outcome)
        tried == IF p.provider_called THEN <<"primary">> ELSE <<>>
    IN IF ~p.failed
       THEN [primary |-> p.breaker, fallback |-> l.fallback,
             tokens |-> p.tokens, raised |-> FALSE,
             models |-> <<"primary">>, primary_failed |-> FALSE,
             provider_calls |-> tried]
       ELSE IF settings.enable_fallback_llm
       THEN [primary |-> p.breaker, fallback |-> f.breaker,
             tokens |-> p.tokens \o f.tokens
                          \o (IF f.failed THEN <<ErrorToken>> ELSE <<>>),
             raised |-> FALSE,
             models |-> <<"primary", "fallback">>, primary_failed |-> TRUE,
             provider_calls |->
                 tried \o (IF f.provider_called THEN <<"fallback">> ELSE <<>>)]
       ELSE [primary |-> p.breaker, fallback |-> l.fallback,
             tokens |-> Append(p.tokens, ErrorToken), raised |-> FALSE,
             models |-> <<"primary">>, primary_failed |-> TRUE,
             provider_calls |-> tried]

NoStream == [kind |-> "none"]

\* LLMService(): both breakers closed. streak counts the stream_chat calls
\* in a row whose primary request failed with an error that is not excluded.
NoLLM ==
    [primary |-> ClosedBreaker, fallback |-> ClosedBreaker,
     last |-> NoStream, streak |-> 0]

----------------------------------------------------------------------------
(* History kept for the properties *)

NoCheck == [kind |-> "none"]
NoSearch == [kind |-> "none"]
NoRerank == [called |-> FALSE, query_vector |-> <<>>, candidates |-> <<>>, k |-> 0,
             lambda |-> 0, out |-> [raised |-> FALSE, results |-> <<>>]]

\* A request of the orchestrator: its arguments, where it stands (pc), the
\* events it has yielded (voice), what it returned or raised (text), and
\* the collaborator calls it has made.
NoRequest ==
    [kind |-> "none", pc |-> "idle", org_id |-> None, user_id |-> None,
     text |-> <<>>, events |-> <<>>, out |-> [kind |-> "none"],
     response_text |-> <<>>, search_results |-> <<>>, calls |-> <<>>,
     ntok |-> 0, route |-> FALSE, raised |-> <<>>, stt_error |-> None,
     search_path |-> "none"]

\* The record_request calls of a key made less than 60 s before now.
RecentRecords(key) ==
    {i \in 1..Len(recLog[key]) : now - recLog[key][i] < 60}

TotalRecords ==
    LET RECURSIVE Sum(_)
        Sum(S) == IF S = {} THEN 0
                  ELSE LET k == CHOOSE k \in S : TRUE
                       IN Len(recLog[k]) + Sum(S \ {k})
    IN Sum(RateKeys)

----------------------------------------------------------------------------
(* Initial state: an empty Redis, an empty corpus, the configured limits.   *)

InitBase ==
    /\ now = 0
    /\ ticks = 0
    /\ redisUp = TRUE
    /\ zsets = [k \in RateKeys |-> EmptyZ]
    /\ kv = <<>>
    /\ docs = <<>>
    /\ deleted = {}
    /\ recLog = [k \in RateKeys |-> <<>>]
    /\ lastCheck = NoCheck
    /\ lastSearch = NoSearch
    /\ req = NoRequest
    /\ served = 0
    /\ llm = NoLLM
    /\ cacheLog = <<>>

\* The worker has not been called.
NoChunking == [pc |-> "idle", text |-> <<>>, chunk_size |-> 0, overlap |-> 0,
               start |-> 0, chunks |-> <<>>, windows |-> <<>>]

\* manager = ConnectionManager(); no websocket has been opened.
SessionIds == {"s1", "s2"}
HandlerIds == {1, 2}
NoManager == [active_connections |-> <<>>, audio_buffers |-> <<>>]
NoHandler == [pc |-> "none", session_id |-> "s1", gone |-> FALSE, events |-> 0,
              messages |-> 0, last |-> "none"]

InitManager ==
    /\ manager = NoManager
    /\ handlers = [h \in HandlerIds |-> NoHandler]

NoEmbeddings == [rows |-> {}, next_id |-> 1]
NoWork == [op |-> "none"]

\* No request and no _embed_document coroutine has started.
CallerIds == 1..MaxCallers
RunIds == 1..MaxRuns
NoCaller == [pc |-> "idle", checked_at |-> 0, recorded_at |-> 0]
NoRun == [pc |-> "idle", doc_id |-> 0, found |-> <<>>]

InitRaces ==
    /\ callers = [c \in CallerIds |-> NoCaller]
    /\ runs = [r \in RunIds |-> NoRun]

\* Worker(): nothing queued, nothing embedded.
InitTables ==
    /\ embeddings = NoEmbeddings
    /\ canEmbed = {}
    /\ queue = <<>>
    /\ taskTable = <<>>
    /\ inflight = {}
    /\ lastWork = NoWork
    /\ workerPc = "blpop"
    /\ InitRaces

InitWorkerIdle ==
    /\ chunking = NoChunking
    /\ InitManager
    /\ InitTables

InitCommon ==
    /\ InitBase
    /\ mmr = NoRerank
    /\ InitWorkerIdle

Init ==
    /\ InitCommon
    /\ settings \in [default_rpm : RpmChoices, default_burst : BurstChoices,
                     enable_fallback_llm : BOOLEAN]

InitRate ==
    /\ InitCommon
    /\ settings \in [default_rpm : RpmChoices, default_burst : BurstChoices,
                     enable_fallback_llm : {TRUE}]

\* The search service reads none of these settings.
InitSearch ==
    /\ InitCommon
    /\ settings \in [default_rpm : {2}, default_burst : {2},
                     enable_fallback_llm : {TRUE}]

----------------------------------------------------------------------------
(* Environment *)

Tick ==
    /\ ticks < MaxTicks
    /\ \E d \in TickSteps : now' = now + d
    /\ ticks' = ticks + 1
    /\ lastCheck' = NoCheck
    /\ lastSearch' = NoSearch
    /\ UNCHANGED <<redisUp, settings, zsets, kv, docs, deleted, recLog, req, served, llm, cacheLog, mmr, workerVars>>

----------------------------------------------------------------------------
(* The rate limiter called on its own *)

RecordRequest ==
    /\ TotalRecords < MaxRecords
    /\ \E c \in RateCallers :
         LET key == RateKey(c[1], c[2])
         IN /\ zsets' = [zsets EXCEPT ![key] = record_request(@)]
            /\ recLog' = [recLog EXCEPT ![key] = Append(@, now)]
    /\ lastCheck' = NoCheck
    /\ UNCHANGED <<now, ticks, redisUp, settings, kv, docs, deleted,
                   lastSearch, req, served, llm, cacheLog, mmr, workerVars>>

CheckRateLimit ==
    /\ \E c \in RateCallers :
         LET key == RateKey(c[1], c[2])
             res == check_rate_limit(zsets[key], c[1], None, None)
             eff == get_org_rate_limits(c[1])
         IN /\ zsets' = [zsets EXCEPT ![key] = CheckPipeline(@)]
            /\ lastCheck' =
                 [kind |-> "result", key |-> key,
                  rpm |-> eff.rpm, burst |-> eff.burst,
                  allowed |-> res.allowed,
                  remaining |-> res.remaining,
                  reset_time |-> res.reset_time]
    /\ UNCHANGED <<now, ticks, redisUp, settings, kv, docs, deleted,
                   recLog, lastSearch, req, served, llm, cacheLog, mmr, workerVars>>

----------------------------------------------------------------------------
(* Requests of one (tenant, user) at the rate limiter: each awaits           *)
(* check_rate_limit and, when allowed, record_request, as the handlers do.  *)

AdmitOrg == Some(1)
AdmitKey == RateKey(AdmitOrg, Some(7))

\* allowed, remaining, reset_time = await check_rate_limit(org_id, user_id)
CallerCheck(c) ==
    /\ callers[c].pc = "idle"
    /\ LET res == check_rate_limit(zsets[AdmitKey], AdmitOrg, None, None)
       IN callers' = [callers EXCEPT ![c].pc = IF res.allowed THEN "allowed"
                                               ELSE "denied",
                                     ![c].checked_at = now]
    /\ zsets' = [zsets EXCEPT ![AdmitKey] = CheckPipeline(@)]
    /\ lastCheck' = NoCheck
    /\ UNCHANGED <<now, ticks, redisUp, settings, kv, docs, deleted, recLog,
                   lastSearch, req, served, llm, cacheLog, mmr, manager, handlers,
                   chunking, embeddings, canEmbed, queue, taskTable, inflight,
                   lastWork, workerPc, runs>>

\* await record_request(org_id, user_id)
CallerRecord(c) ==
    /\ callers[c].pc = "allowed"
    /\ callers' = [callers EXCEPT ![c].pc = "recorded", ![c].recorded_at = now]
    /\ zsets' = [zsets EXCEPT ![AdmitKey] = record_request(@)]
    /\ recLog' = [recLog EXCEPT ![AdmitKey] = Append(@, now)]
    /\ lastCheck' = NoCheck
    /\ UNCHANGED <<now, ticks, redisUp, settings, kv, docs, deleted,
                   lastSearch, req, served, llm, cacheLog, mmr, manager, handlers,
                   chunking, embeddings, canEmbed, queue, taskTable, inflight,
                   lastWork, workerPc, runs>>

\* A request that starts only when no other request is between its check
\* and its record.
CallerCheckInTurn(c) ==
    /\ \A other \in CallerIds : callers[other].pc # "allowed"
    /\ CallerCheck(c)

CallerChecks == \E c \in CallerIds : CallerCheck(c)
CallerChecksInTurn == \E c \in CallerIds : CallerCheckInTurn(c)
CallerRecords == \E c \in CallerIds : CallerRecord(c)

\* Requests served concurrently, requests served one after the other.
NextAdmit == Tick \/ CallerChecks \/ CallerRecords
SpecAdmit == InitRate /\ [][NextAdmit]_vars

NextAdmitInTurn == Tick \/ CallerChecksInTurn \/ CallerRecords
SpecAdmitInTurn == InitRate /\ [][NextAdmitInTurn]_vars

----------------------------------------------------------------------------
(* Redis going away and coming back *)

RedisDown ==
    /\ redisUp
    /\ redisUp' = FALSE
    /\ lastCheck' = NoCheck
    /\ lastSearch' = NoSearch
    /\ UNCHANGED <<now, ticks, settings, zsets, kv, docs, deleted, recLog,
                   req, served, llm, cacheLog, mmr, workerVars>>

RedisUp ==
    /\ ~redisUp
    /\ redisUp' = TRUE
    /\ lastCheck' = NoCheck
    /\ lastSearch' = NoSearch
    /\ UNCHANGED <<now, ticks, settings, zsets, kv, docs, deleted, recLog,
                   req, served, llm, cacheLog, mmr, workerVars>>

----------------------------------------------------------------------------
(* The corpus routes and the search service called on its own *)

\* create_document: the row gets the next id and the member's organization.
CreateDocument ==
    /\ Len(docs) < MaxDocs
    /\ \E org \in Orgs, title \in DocTitles, text \in DocTexts :
         docs' = Append(docs, [org_id |-> org, title |-> title, text |-> text])
    /\ lastCheck' = NoCheck
    /\ lastSearch' = NoSearch
    /\ UNCHANGED <<now, ticks, redisUp, settings, zsets, kv, deleted, recLog,
                   req, served, llm, cacheLog, mmr, workerVars>>

\* delete_document
DeleteDocument ==
    /\ \E id \in LiveIds : deleted' = deleted \cup {id}
    /\ lastCheck' = NoCheck
    /\ lastSearch' = NoSearch
    /\ UNCHANGED <<now, ticks, redisUp, settings, zsets, kv, docs, recLog,
                   req, served, llm, cacheLog, mmr, workerVars>>

Search ==
    /\ \E org_id \in OptOrgs, query \in Queries, k \in Ks,
          model_ok \in BOOLEAN :
       \E scan \in Orderings(CachedRows(kv, query, k, org_id)) :
         LET r == search(kv, query, k, org_id, model_ok, scan)
         IN /\ kv' = r.kv
            /\ lastSearch' = [kind |-> "result", org_id |-> org_id,
                              query |-> query, k |-> k,
                              outcome |-> r.outcome, results |-> r.results,
                              path |-> r.path, calls |-> r.calls]
    /\ lastCheck' = NoCheck
    /\ UNCHANGED <<now, ticks, redisUp, settings, zsets, docs, deleted, recLog,
                   req, served, llm, cacheLog, mmr, workerVars>>

\* A row of table doc is edited in place (no route of the API does it).
EditTitles == {<<"policy", "v2">>}
EditTexts == {<<"rules">>}

EditDocument ==
    /\ \E id \in LiveIds, title \in EditTitles, text \in EditTexts :
         /\ docs[id].title # title
         /\ docs' = [docs EXCEPT ![id].title = title, ![id].text = text]
    /\ lastCheck' = NoCheck
    /\ lastSearch' = NoSearch
    /\ UNCHANGED <<now, ticks, redisUp, settings, zsets, kv, deleted, recLog,
                   req, served, llm, cacheLog, mmr, workerVars>>

NextEdit == CreateDocument \/ EditDocument \/ Search

SpecEdit == InitSearch /\ [][NextEdit]_vars

NextSearch == CreateDocument \/ DeleteDocument \/ Search

SpecSearch == InitSearch /\ [][NextSearch]_vars

NextRate == Tick \/ RecordRequest \/ CheckRateLimit

SpecRate == InitRate /\ [][NextRate]_vars

----------------------------------------------------------------------------
(* OrchestratorService: strings, events and payloads *)

default_search_k == 8

\* str.startswith
StartsWith(str, prefix) ==
    Len(str) >= Len(prefix) /\ SubSeq(str, 1, Len(prefix)) = prefix

\* f"Error generating response: {str(e)}" of handle_text_query
GenerationErrorText(e) ==
    <<"E", "r", "r", "o", "r", " ", "generating response: ", e>>

RateLimitMessage(reset_time) ==
    <<"Rate limit exceeded. Try again in ", Str(reset_time), " seconds.">>

StatusEvent(data) == [type |-> "status", data |-> data]
ErrorEvent(data) == [type |-> "error", data |-> data]
TokenEvent(token) == [type |-> "token", data |-> token]

\* The sources of an answer: the top five search results.
Sources(search_results) ==
    LET top == Take(search_results, 5)
    IN [i \in 1..Len(top) |->
          [title |-> top[i].title, snippet |-> top[i].snippet,
           score |-> top[i].score]]

Payload(r) ==
    [response |-> r.response_text, sources |-> Sources(r.search_results),
     org_id |-> r.org_id, user_id |-> r.user_id]

\* if response_text and not response_text.startswith("Error:")
ShouldCache(response_text) ==
    response_text # <<>> /\ ~StartsWith(response_text, ErrorPrefix)

Emit(r, ev) == [r EXCEPT !.events = Append(@, ev)]
Called(r, name) == [r EXCEPT !.calls = Append(@, name)]
Done(r) == [r EXCEPT !.pc = "done"]

\* The exception leaves the generator: no event is yielded for it.
VoiceRaisedEscapes(r, collaborator, e) ==
    Done([r EXCEPT !.raised = Append(@, collaborator),
                   !.out = [kind |-> "Exception", message |-> <<e>>]])
\* A collaborator raised inside handle_voice_query:
\* except Exception as e: yield the error event
VoiceRaised(r, collaborator, e) ==
    Done(Emit([r EXCEPT !.raised = Append(@, collaborator)],
              ErrorEvent(<<"An error occurred: ", e>>)))

FinalEvent(r, sources) ==
    [type |-> "final",
     data |-> [response |-> r.response_text, sources |-> sources,
               transcript |-> r.text, cached |-> FALSE]]

\* The stream of an answer to cache is followed by a second search.
AfterStreamSearchesAgain(r) ==
    IF ShouldCache(r.response_text)
    THEN [r EXCEPT !.pc = "search"]
    ELSE Done(Emit(r, [type |-> "final",
                       data |-> [response |-> r.response_text, sources |-> <<>>,
                                 transcript |-> r.text, cached |-> FALSE]]))
\* The stream of an answer that is not cached ends without a final event.
AfterStreamSilent(r) ==
    IF ShouldCache(r.response_text)
    THEN [r EXCEPT !.pc = "cache_write"]
    ELSE Done(r)
\* After the token stream has ended: write the cache, or finish at once.
AfterStream(r) ==
    IF ShouldCache(r.response_text)
    THEN [r EXCEPT !.pc = "cache_write"]
    ELSE Done(Emit(r, FinalEvent(r, <<>>)))

\* The organization check left out.
OrgNotChecked(org_id) == FALSE
\* The check written as "org_id is None": organization 0 passes.
MissingOrgNoneOnly(org_id) == org_id = None
\* if not org_id, before the search
MissingOrg(org_id) == ~Truthy(org_id)

Idle == req.pc \in {"idle", "done"}

----------------------------------------------------------------------------
(* handle_voice_query, one action for each collaborator call it awaits *)

VoiceStart ==
    /\ Idle
    /\ served < MaxRequests
    /\ served' = served + 1
    /\ \E org_id \in OptOrgs, user_id \in OptUsers :
         req' = [NoRequest EXCEPT
                   !.kind = "voice", !.pc = "transcribing",
                   !.org_id = org_id, !.user_id = user_id,
                   !.events = <<StatusEvent("Transcribing audio...")>>]
    /\ UNCHANGED <<now, ticks, redisUp, settings, zsets, kv, docs, deleted,
                   recLog, lastCheck, lastSearch, llm, cacheLog, mmr, workerVars>>

\* What stt_service.transcribe_audio returns: the text of the audio, or,
\* when anything raised, an empty text and "error": str(e).
Transcriptions ==
    {[text |-> t, error |-> None] : t \in Transcripts}
      \cup {[text |-> <<>>, error |-> Some(e)] : e \in SttErrors}

\* if transcription.get("error")
TranscriptionError(transcription) ==
    transcription.error # None /\ transcription.error[1] # ""

VoiceTranscribe ==
    /\ req.kind = "voice" /\ req.pc = "transcribing"
    /\ \E transcription \in Transcriptions :
         LET r == [Called(req, "transcribe_audio") EXCEPT
                     !.stt_error = transcription.error]
             t == Emit([r EXCEPT !.text = transcription.text],
                       [type |-> "transcript", data |-> transcription.text])
         IN req' = IF TranscriptionError(transcription)
                   THEN Done(Emit(r, ErrorEvent(<<"Transcription failed: ",
                                                  transcription.error[1]>>)))
                   ELSE IF Truthy(req.org_id)
                   THEN [t EXCEPT !.pc = "rate_check"]
                   ELSE [Emit(t, StatusEvent("Searching for relevant information..."))
                           EXCEPT !.pc = "cache_check"]
    /\ UNCHANGED <<now, ticks, redisUp, settings, zsets, kv, docs, deleted,
                   recLog, lastCheck, lastSearch, served, llm, cacheLog, mmr, workerVars>>

VoiceRateCheck ==
    /\ req.kind = "voice" /\ req.pc = "rate_check"
    /\ LET r == Called(req, "check_rate_limit")
           key == RateKey(req.org_id, req.user_id)
           res == check_rate_limit(zsets[key], req.org_id, None, None)
       IN IF ~redisUp
          THEN /\ req' = VoiceRaised(r, "check_rate_limit", "ConnectionError")
               /\ zsets' = zsets
          ELSE /\ zsets' = [zsets EXCEPT ![key] = CheckPipeline(@)]
               /\ req' = IF res.allowed
                         THEN [r EXCEPT !.pc = "rate_record"]
                         ELSE Done(Emit(r, ErrorEvent(RateLimitMessage(res.reset_time))))
    /\ UNCHANGED <<now, ticks, redisUp, settings, kv, docs, deleted,
                   recLog, lastCheck, lastSearch, served, llm, cacheLog, mmr, workerVars>>

VoiceRateRecord ==
    /\ req.kind = "voice" /\ req.pc = "rate_record"
    /\ LET r == Called(req, "record_request")
           key == RateKey(req.org_id, req.user_id)
       IN IF ~redisUp
          THEN /\ req' = VoiceRaised(r, "record_request", "ConnectionError")
               /\ UNCHANGED <<zsets, recLog>>
          ELSE /\ zsets' = [zsets EXCEPT ![key] = record_request(@)]
               /\ recLog' = [recLog EXCEPT ![key] = Append(@, now)]
               /\ req' = [Emit(r, StatusEvent("Searching for relevant information..."))
                            EXCEPT !.pc = "cache_check"]
    /\ UNCHANGED <<now, ticks, redisUp, settings, kv, docs, deleted,
                   lastCheck, lastSearch, served, llm, cacheLog, mmr, workerVars>>

VoiceCacheCheck ==
    /\ req.kind = "voice" /\ req.pc = "cache_check"
    /\ LET r == Called(req, "get_response_cache")
           cached_response == get_response_cache(kv, req.text, req.org_id)
       IN req' =
            IF ~redisUp THEN VoiceRaised(r, "get_response_cache", "ConnectionError")
            ELSE IF cached_response # None
            THEN Done(Emit(r, [type |-> "chat_response",
                               data |-> cached_response[1].response,
                               sources |-> cached_response[1].sources,
                               cached |-> TRUE,
                               entry_org |-> cached_response[1].org_id]))
            ELSE IF MissingOrg(req.org_id)
            THEN Done(Emit(r, ErrorEvent(<<"Organization ID is required for security">>)))
            ELSE [r EXCEPT !.pc = "search"]
    /\ UNCHANGED <<now, ticks, redisUp, settings, zsets, kv, docs, deleted,
                   recLog, lastCheck, lastSearch, served, llm, cacheLog, mmr, workerVars>>

VoiceSearch ==
    /\ req.kind = "voice" /\ req.pc = "search"
    /\ \E model_ok \in BOOLEAN :
       \E scan \in Orderings(CachedRows(kv, req.text, default_search_k, req.org_id)) :
         LET found == search(kv, req.text, default_search_k, req.org_id,
                             model_ok, scan)
             r == [Called(req, "search") EXCEPT !.search_path = found.path]
             none == IF found.results = <<>>
                     THEN Emit(r, StatusEvent("No relevant documents found. Generating response..."))
                     ELSE r
         IN /\ kv' = found.kv
            /\ req' = IF found.outcome = "raised"
                      THEN VoiceRaised(r, "search", "ConnectionError")
                      ELSE [Emit(none, StatusEvent("Generating response..."))
                              EXCEPT !.search_results = found.results,
                                     !.pc = "primary"]
    /\ UNCHANGED <<now, ticks, redisUp, settings, zsets, docs, deleted,
                   recLog, lastCheck, lastSearch, served, llm, cacheLog, mmr, workerVars>>

\* stream_chat: a model yields one more token.
VoiceToken ==
    /\ req.kind = "voice" /\ req.pc \in {"primary", "fallback"}
    /\ req.ntok < MaxTokens
    /\ \E token \in Tokens :
         req' = [Emit(req, TokenEvent(token)) EXCEPT
                   !.response_text = @ \o token, !.ntok = @ + 1,
                   !.calls = IF "stream_chat" \in Range(@) THEN @ ELSE Append(@, "stream_chat")]
    /\ UNCHANGED <<now, ticks, redisUp, settings, zsets, kv, docs, deleted,
                   recLog, lastCheck, lastSearch, served, llm, cacheLog, mmr, workerVars>>

\* stream_chat: the model in use ends its stream.
VoiceStreamEnd ==
    /\ req.kind = "voice" /\ req.pc \in {"primary", "fallback"}
    /\ req' = AfterStream(
                [req EXCEPT !.calls = IF "stream_chat" \in Range(@)
                                      THEN @ ELSE Append(@, "stream_chat")])
    /\ UNCHANGED <<now, ticks, redisUp, settings, zsets, kv, docs, deleted,
                   recLog, lastCheck, lastSearch, served, llm, cacheLog, mmr, workerVars>>

\* stream_chat: the model in use fails (or its breaker is open): the
\* fallback model takes over, or the error token ends the stream.
VoiceModelFails ==
    /\ req.kind = "voice" /\ req.pc \in {"primary", "fallback"}
    /\ LET r == [req EXCEPT !.calls = IF "stream_chat" \in Range(@)
                                      THEN @ ELSE Append(@, "stream_chat")]
       IN req' =
            IF req.pc = "primary" /\ settings.enable_fallback_llm
            THEN [r EXCEPT !.pc = "fallback"]
            ELSE AfterStream([Emit(r, TokenEvent(ErrorToken)) EXCEPT
                                !.response_text = @ \o ErrorToken])
    /\ UNCHANGED <<now, ticks, redisUp, settings, zsets, kv, docs, deleted,
                   recLog, lastCheck, lastSearch, served, llm, cacheLog, mmr, workerVars>>

VoiceCacheWrite ==
    /\ req.kind = "voice" /\ req.pc = "cache_write"
    /\ LET r == Called(req, "set_response_cache")
       IN IF ~redisUp
          THEN /\ req' = VoiceRaised(r, "set_response_cache", "ConnectionError")
               /\ kv' = kv
          ELSE /\ kv' = set_response_cache(kv, req.text, Payload(req), req.org_id)
               /\ req' = Done(Emit(r, FinalEvent(r, Sources(req.search_results))))
    /\ UNCHANGED <<now, ticks, redisUp, settings, zsets, docs, deleted,
                   recLog, lastCheck, lastSearch, served, llm, cacheLog, mmr, workerVars>>

VoiceQuery ==
    \/ VoiceStart \/ VoiceTranscribe \/ VoiceRateCheck \/ VoiceRateRecord
    \/ VoiceCacheCheck \/ VoiceSearch \/ VoiceToken \/ VoiceStreamEnd
    \/ VoiceModelFails \/ VoiceCacheWrite

----------------------------------------------------------------------------
(* The chat route and handle_text_query *)

current_user_id == 7
Memberships == {None, Some(1)}

ChatResponse(response, sources, cached, entry_org) ==
    [kind |-> "ChatResponse", response |-> response, sources |-> sources,
     cached |-> cached, entry_org |-> entry_org]

HTTPException(status_code, detail) ==
    [kind |-> "HTTPException", status_code |-> status_code, detail |-> detail]

\* handle_text_query raises: the exception reaches its caller, and the
\* chat route turns everything but an HTTPException into a 500.
TextRaised(r, collaborator, message) ==
    Done([r EXCEPT
            !.raised = IF collaborator = "" THEN @ ELSE Append(@, collaborator),
            !.out = IF r.route
                    THEN HTTPException(500,
                           <<"An error occurred while processing your request: ">>
                             \o message)
                    ELSE [kind |-> "Exception", message |-> message]])

\* POST /chat up to its first await.
ChatStart ==
    /\ Idle
    /\ served < MaxRequests
    /\ served' = served + 1
    /\ \E org_id \in OptOrgs, user_id \in OptUsers, membership \in Memberships :
         LET r == [NoRequest EXCEPT
                     !.kind = "text", !.route = TRUE, !.text = <<"hipaa">>,
                     !.org_id = IF Truthy(org_id) THEN org_id ELSE membership,
                     !.user_id = IF Truthy(user_id) THEN user_id
                                 ELSE Some(current_user_id)]
         IN req' = IF ~Truthy(org_id) /\ membership = None
                   THEN Done([r EXCEPT !.out = HTTPException(400,
                                <<"User is not a member of any organization">>)])
                   ELSE [r EXCEPT !.pc = "route_check"]
    /\ UNCHANGED <<now, ticks, redisUp, settings, zsets, kv, docs, deleted,
                   recLog, lastCheck, lastSearch, llm, cacheLog, mmr, workerVars>>

RouteRateCheck ==
    /\ req.kind = "text" /\ req.pc = "route_check"
    /\ LET r == Called(req, "check_rate_limit")
           key == RateKey(req.org_id, req.user_id)
           res == check_rate_limit(zsets[key], req.org_id, None, None)
       IN IF ~redisUp
          THEN /\ req' = TextRaised(r, "check_rate_limit", <<"ConnectionError">>)
               /\ zsets' = zsets
          ELSE /\ zsets' = [zsets EXCEPT ![key] = CheckPipeline(@)]
               /\ req' = IF res.allowed
                         THEN [r EXCEPT !.pc = "route_record"]
                         ELSE Done([r EXCEPT !.out = HTTPException(429,
                                      RateLimitMessage(res.reset_time))])
    /\ UNCHANGED <<now, ticks, redisUp, settings, kv, docs, deleted,
                   recLog, lastCheck, lastSearch, served, llm, cacheLog, mmr, workerVars>>

\* record_request, then the call of handle_text_query.
RouteRateRecord ==
    /\ req.kind = "text" /\ req.pc = "route_record"
    /\ LET r == Called(req, "record_request")
           key == RateKey(req.org_id, req.user_id)
       IN IF ~redisUp
          THEN /\ req' = TextRaised(r, "record_request", <<"ConnectionError">>)
               /\ UNCHANGED <<zsets, recLog>>
          ELSE /\ zsets' = [zsets EXCEPT ![key] = record_request(@)]
               /\ recLog' = [recLog EXCEPT ![key] = Append(@, now)]
               /\ req' = [r EXCEPT !.pc = IF Truthy(req.org_id)
                                          THEN "rate_check" ELSE "cache_check"]
    /\ UNCHANGED <<now, ticks, redisUp, settings, kv, docs, deleted,
                   lastCheck, lastSearch, served, llm, cacheLog, mmr, workerVars>>

\* handle_text_query called with a request of its caller's making.
TextStart ==
    /\ Idle
    /\ served < MaxRequests
    /\ served' = served + 1
    /\ \E org_id \in OptOrgs, user_id \in OptUsers :
         req' = [NoRequest EXCEPT
                   !.kind = "text", !.text = <<"hipaa">>,
                   !.org_id = org_id, !.user_id = user_id,
                   !.pc = IF Truthy(org_id) THEN "rate_check" ELSE "cache_check"]
    /\ UNCHANGED <<now, ticks, redisUp, settings, zsets, kv, docs, deleted,
                   recLog, lastCheck, lastSearch, llm, cacheLog, mmr, workerVars>>

TextRateCheck ==
    /\ req.kind = "text" /\ req.pc = "rate_check"
    /\ LET r == Called(req, "check_rate_limit")
           key == RateKey(req.org_id, req.user_id)
           res == check_rate_limit(zsets[key], req.org_id, None, None)
       IN IF ~redisUp
          THEN /\ req' = TextRaised(r, "check_rate_limit", <<"ConnectionError">>)
               /\ zsets' = zsets
          ELSE /\ zsets' = [zsets EXCEPT ![key] = CheckPipeline(@)]
               /\ req' = IF res.allowed
                         THEN [r EXCEPT !.pc = "rate_record"]
                         ELSE TextRaised(r, "", RateLimitMessage(res.reset_time))
    /\ UNCHANGED <<now, ticks, redisUp, settings, kv, docs, deleted,
                   recLog, lastCheck, lastSearch, served, llm, cacheLog, mmr, workerVars>>

TextRateRecord ==
    /\ req.kind = "text" /\ req.pc = "rate_record"
    /\ LET r == Called(req, "record_request")
           key == RateKey(req.org_id, req.user_id)
       IN IF ~redisUp
          THEN /\ req' = TextRaised(r, "record_request", <<"ConnectionError">>)
               /\ UNCHANGED <<zsets, recLog>>
          ELSE /\ zsets' = [zsets EXCEPT ![key] = record_request(@)]
               /\ recLog' = [recLog EXCEPT ![key] = Append(@, now)]
               /\ req' = [r EXCEPT !.pc = "cache_check"]
    /\ UNCHANGED <<now, ticks, redisUp, settings, kv, docs, deleted,
                   lastCheck, lastSearch, served, llm, cacheLog, mmr, workerVars>>

TextCacheCheck ==
    /\ req.kind = "text" /\ req.pc = "cache_check"
    /\ LET r == Called(req, "get_response_cache")
           cached_response == get_response_cache(kv, req.text, req.org_id)
       IN req' =
            IF ~redisUp
            THEN TextRaised(r, "get_response_cache", <<"ConnectionError">>)
            ELSE IF cached_response # None
            THEN Done([r EXCEPT !.out =
                         ChatResponse(cached_response[1].response,
                                      cached_response[1].sources, TRUE,
                                      cached_response[1].org_id)])
            ELSE IF MissingOrg(req.org_id)
            THEN TextRaised(r, "", <<"Organization ID is required for security">>)
            ELSE [r EXCEPT !.pc = "search"]
    /\ UNCHANGED <<now, ticks, redisUp, settings, zsets, kv, docs, deleted,
                   recLog, lastCheck, lastSearch, served, llm, cacheLog, mmr, workerVars>>

\* search, then llm_service.chat: LLMService has no attribute chat, so the
\* handler around the call always builds the error text.
TextSearch ==
    /\ req.kind = "text" /\ req.pc = "search"
    /\ \E model_ok \in BOOLEAN :
       \E scan \in Orderings(CachedRows(kv, req.text, default_search_k, req.org_id)) :
         LET found == search(kv, req.text, default_search_k, req.org_id,
                             model_ok, scan)
             r == [Called(req, "search") EXCEPT !.search_path = found.path]
             g == [Called(r, "chat") EXCEPT
                     !.search_results = found.results,
                     !.response_text = GenerationErrorText("AttributeError")]
         IN /\ kv' = found.kv
            /\ req' = IF found.outcome = "raised"
                      THEN TextRaised(r, "search", <<"ConnectionError">>)
                      ELSE IF ShouldCache(g.response_text)
                      THEN [g EXCEPT !.pc = "cache_write"]
                      ELSE Done([g EXCEPT !.out =
                                   ChatResponse(g.response_text,
                                                Sources(g.search_results),
                                                FALSE, None)])
    /\ UNCHANGED <<now, ticks, redisUp, settings, zsets, docs, deleted,
                   recLog, lastCheck, lastSearch, served, llm, cacheLog, mmr, workerVars>>

TextCacheWrite ==
    /\ req.kind = "text" /\ req.pc = "cache_write"
    /\ LET r == Called(req, "set_response_cache")
       IN IF ~redisUp
          THEN /\ req' = TextRaised(r, "set_response_cache", <<"ConnectionError">>)
               /\ kv' = kv
          ELSE /\ kv' = set_response_cache(kv, req.text, Payload(req), req.org_id)
               /\ req' = Done([r EXCEPT !.out =
                                 ChatResponse(req.response_text,
                                              Sources(req.search_results),
                                              FALSE, None)])
    /\ UNCHANGED <<now, ticks, redisUp, settings, zsets, docs, deleted,
                   recLog, lastCheck, lastSearch, served, llm, cacheLog, mmr, workerVars>>

TextQuery ==
    \/ ChatStart \/ RouteRateCheck \/ RouteRateRecord \/ TextStart
    \/ TextRateCheck \/ TextRateRecord \/ TextCacheCheck \/ TextSearch
    \/ TextCacheWrite

----------------------------------------------------------------------------
(* The orchestrator over a store that comes and goes *)

Corpora ==
    {<<>>,
     <<[org_id |-> 1, title |-> <<"policy">>, text |-> <<"hipaa", "rules">>]>>}

InitOrch ==
    /\ now = 0
    /\ ticks = 0
    /\ redisUp = TRUE
    /\ zsets = [k \in RateKeys |-> EmptyZ]
    /\ kv = <<>>
    /\ docs \in Corpora
    /\ deleted = {}
    /\ recLog = [k \in RateKeys |-> <<>>]
    /\ lastCheck = NoCheck
    /\ lastSearch = NoSearch
    /\ req = NoRequest
    /\ served = 0
    /\ llm = NoLLM
    /\ cacheLog = <<>>
    /\ mmr = NoRerank
    /\ InitWorkerIdle
    /\ settings \in [default_rpm : {2}, default_burst : BurstChoices,
                     enable_fallback_llm : BOOLEAN]

\* One call of stream_chat, run to the end of its stream.
StreamChat ==
    /\ \E primary_outcome, fallback_outcome \in ProviderOutcomes :
         LET before == llm
             out == stream_chat(llm, primary_outcome, fallback_outcome)
         IN llm' =
              [primary |-> out.primary, fallback |-> out.fallback,
               last |-> [kind |-> "result",
                         primary_before |-> before.primary,
                         at |-> now,
                         primary_outcome |-> primary_outcome,
                         fallback_outcome |-> fallback_outcome,
                         tokens |-> out.tokens, raised |-> out.raised,
                         models |-> out.models,
                         primary_failed |-> out.primary_failed,
                         provider_calls |-> out.provider_calls],
               streak |-> IF primary_outcome \in {"fails", "fails_late"}
                          THEN Min(before.streak + 1, MaxStreak)
                          ELSE IF primary_outcome = "answers" THEN 0
                          ELSE before.streak]
    /\ UNCHANGED <<now, ticks, redisUp, settings, zsets, kv, docs, deleted,
                   recLog, lastCheck, lastSearch, req, served, cacheLog, mmr, workerVars>>

----------------------------------------------------------------------------
(* CacheService called directly *)

Ttls == {None, Some(0), Some(1), Some(60)}
CachePayloads == {[response |-> <<"O", "K">>], [response |-> <<>>]}
CacheDocIds == {<<2, 1>>}
CacheOrgs == {Some(1), Some(2)}
CacheTexts == {<<"hipaa">>}

\* The set calls are made for no more than MaxCacheKeys keys.
Loggable(key) ==
    key \in DOMAIN cacheLog \/ Cardinality(DOMAIN cacheLog) < MaxCacheKeys

Logged(key, entry) ==
    [x \in DOMAIN cacheLog \cup {key} |->
        IF x = key THEN [entry EXCEPT !.at = now] ELSE cacheLog[x]]

SetResponseCache ==
    /\ \E query \in CacheTexts, org_id \in CacheOrgs,
          response \in CachePayloads, ttl \in Ttls :
         /\ Loggable(ResponseKey(query, org_id))
         /\ kv' = set_response_cache_ttl(kv, query, response, org_id, ttl)
         /\ cacheLog' = Logged(ResponseKey(query, org_id),
                               [kind |-> "response", query |-> query,
                                org_id |-> org_id, value |-> response,
                                ttl |-> ttl, at |-> 0])
    /\ UNCHANGED <<now, ticks, redisUp, settings, zsets, docs, deleted,
                   recLog, lastCheck, lastSearch, req, served, llm, mmr, workerVars>>

SetSearchCache ==
    /\ \E query \in CacheTexts, org_id \in CacheOrgs,
          doc_ids \in CacheDocIds, ttl \in Ttls :
         /\ Loggable(SearchKey(query, org_id))
         /\ kv' = set_search_cache_ttl(kv, query, doc_ids, org_id, ttl)
         /\ cacheLog' = Logged(SearchKey(query, org_id),
                               [kind |-> "search", query |-> query,
                                org_id |-> org_id, value |-> doc_ids,
                                ttl |-> ttl, at |-> 0])
    /\ UNCHANGED <<now, ticks, redisUp, settings, zsets, docs, deleted,
                   recLog, lastCheck, lastSearch, req, served, llm, mmr, workerVars>>

SetEmbeddingCache ==
    /\ \E text \in CacheTexts, embedding \in {<<"vec", 1>>} :
         /\ Loggable(EmbeddingKey(text))
         /\ kv' = set_embedding_cache(kv, text, embedding)
         /\ cacheLog' = Logged(EmbeddingKey(text),
                               [kind |-> "embedding", query |-> text,
                                org_id |-> None, value |-> embedding,
                                ttl |-> None, at |-> 0])
    /\ UNCHANGED <<now, ticks, redisUp, settings, zsets, docs, deleted,
                   recLog, lastCheck, lastSearch, req, served, llm, mmr, workerVars>>

NextCache == Tick \/ SetResponseCache \/ SetSearchCache \/ SetEmbeddingCache

SpecCache == InitSearch /\ [][NextCache]_vars

----------------------------------------------------------------------------
(* SearchService._mmr_rerank, called with the rows a vector search found *)

MaxCandidates == 3
MaxK == 3

RerankKs == 0..MaxK

\* The rows of a vector search: id and vector of each, ids in list order.
CandidateLists ==
    UNION {[1..n -> [id : {0}, vector : Vectors \cup {Malformed}]] : n \in 0..MaxCandidates}

Numbered(candidates) ==
    [i \in 1..Len(candidates) |-> [candidates[i] EXCEPT !.id = i]]

\* The call about to be made: its arguments.
InitMMR ==
    /\ InitBase
    /\ InitWorkerIdle
    /\ settings \in [default_rpm : {2}, default_burst : {2},
                     enable_fallback_llm : {TRUE}]
    /\ mmr \in [called : {FALSE}, query_vector : QueryVectors,
                candidates : {Numbered(rows) : rows \in CandidateLists},
                k : RerankKs, lambda : Lambdas, out : {NoRerank.out}]

MmrRerank ==
    /\ ~mmr.called
    /\ mmr' = [mmr EXCEPT !.called = TRUE,
                          !.out = _mmr_rerank(mmr.query_vector, mmr.candidates,
                                              mmr.k, mmr.lambda)]
    /\ UNCHANGED <<now, ticks, redisUp, settings, zsets, kv, docs, deleted,
                   recLog, lastCheck, lastSearch, req, served, llm, cacheLog,
                   workerVars>>

NextMMR == MmrRerank
SpecMMR == InitMMR /\ [][NextMMR]_vars

\* Candidate sets of two near-duplicates and one candidate dissimilar to both:
\* cosine above 0.99 between the two, at most 0 between the third and each.
DiversityVectors == {<<1, 0>>, <<2, 0>>, <<0, 1>>, <<0, -1>>, <<-1, 0>>, <<3, 4>>}
DiversityQueries == {<<1, 0>>, <<4, -3>>, <<4, 3>>, <<0, 1>>, <<3, 4>>, <<-1, 0>>}
NearDuplicates(a, b) == FGt(Cosine(a, b), <<99, 100>>)
Dissimilar(a, b) == ~FGt(Cosine(a, b), <<0, 1>>)

\* Whether candidates i and j are the near-duplicates and d the dissimilar one.
DiversityRoles(candidates, i, j, d) ==
    /\ {i, j, d} = 1..3 /\ i # j /\ Len(candidates) = 3
    /\ NearDuplicates(candidates[i].vector, candidates[j].vector)
    /\ Dissimilar(candidates[d].vector, candidates[i].vector)
    /\ Dissimilar(candidates[d].vector, candidates[j].vector)

InitDiversity ==
    /\ InitBase
    /\ InitWorkerIdle
    /\ settings \in [default_rpm : {2}, default_burst : {2},
                     enable_fallback_llm : {TRUE}]
    /\ mmr \in [called : {FALSE}, query_vector : DiversityQueries,
                candidates : {Numbered(rows) :
                                rows \in [1..3 -> [id : {0}, vector : DiversityVectors]]},
                k : {2}, lambda : {5}, out : {NoRerank.out}]
    /\ \E i, j, d \in 1..3 : DiversityRoles(mmr.candidates, i, j, d)

SpecDiversity == InitDiversity /\ [][NextMMR]_vars

NextLLM == Tick \/ StreamChat

SpecLLM == Init /\ [][NextLLM]_vars

NextOrch == VoiceQuery \/ TextQuery \/ RedisDown \/ RedisUp

SpecOrch == InitOrch /\ [][NextOrch]_vars

\* Every call a voice query awaits returns or raises.
SpecOrchLive == SpecOrch /\ WF_vars(VoiceQuery)

\* Voice queries, text queries and direct searches over one store.  A direct
\* search is one of the requests served, taken between two requests of the
\* orchestrator.
SearchRequest ==
    /\ Idle
    /\ served < MaxRequests
    /\ served' = served + 1
    /\ \E org_id \in OptOrgs, query \in Queries, k \in Ks,
          model_ok \in BOOLEAN :
       \E scan \in Orderings(CachedRows(kv, query, k, org_id)) :
       \E r \in {search(kv, query, k, org_id, model_ok, scan)} :
            /\ kv' = r.kv
            /\ lastSearch' = [kind |-> "result", org_id |-> org_id,
                              query |-> query, k |-> k,
                              outcome |-> r.outcome, results |-> r.results,
                              path |-> r.path, calls |-> r.calls]
    /\ UNCHANGED <<now, ticks, redisUp, settings, zsets, docs, deleted, recLog,
                   lastCheck, req, llm, cacheLog, mmr, workerVars>>

NextTenant == VoiceQuery \/ TextQuery \/ SearchRequest
SpecTenant == InitOrch /\ [][NextTenant]_vars

----------------------------------------------------------------------------
(* routes/ws_audio.py: ConnectionManager and the websocket_audio handler *)

MaxMessages == 2
MaxEvents == 2

Without(f, key) == [x \in DOMAIN f \ {key} |-> f[x]]
With(f, key, value) == [x \in DOMAIN f \cup {key} |-> IF x = key THEN value ELSE f[x]]

\* connect, after websocket.accept(): both dictionaries get the session id.
connect(m, websocket, session_id) ==
    [active_connections |-> With(m.active_connections, session_id, websocket),
     audio_buffers |-> With(m.audio_buffers, session_id, <<>>)]

disconnect(m, session_id) ==
    [active_connections |-> Without(m.active_connections, session_id),
     audio_buffers |-> Without(m.audio_buffers, session_id)]

\* send_message: nothing without a connection; a send that raises
\* disconnects the session. fails: whether send_text raises.
send_message(m, session_id, fails) ==
    IF session_id \in DOMAIN m.active_connections /\ fails
    THEN disconnect(m, session_id)
    ELSE m

add_audio_chunk_creates(m, session_id, audio_data) ==
    [m EXCEPT !.audio_buffers =
        With(@, session_id,
             IF session_id \in DOMAIN @ THEN Append(@[session_id], audio_data)
             ELSE <<audio_data>>)]

add_audio_chunk(m, session_id, audio_data) ==
    IF session_id \in DOMAIN m.audio_buffers
    THEN [m EXCEPT !.audio_buffers[session_id] = Append(@, audio_data)]
    ELSE m

get_audio_buffer(m, session_id) ==
    IF session_id \in DOMAIN m.audio_buffers THEN m.audio_buffers[session_id]
    ELSE <<>>

clear_audio_buffer(m, session_id) ==
    IF session_id \in DOMAIN m.audio_buffers
    THEN [m EXCEPT !.audio_buffers[session_id] = <<>>]
    ELSE m

\* Whether send_text on the websocket registered for session_id can raise:
\* only once the client of that websocket is gone.
SendFails(session_id) ==
    IF /\ session_id \in DOMAIN manager.active_connections
       /\ handlers[manager.active_connections[session_id]].gone
    THEN {TRUE, FALSE}
    ELSE {FALSE}

\* What the handler's send did, for the history field last.
Sent(session_id, fails) ==
    IF session_id \notin DOMAIN manager.active_connections THEN "not_connected"
    ELSE IF fails THEN "send_failed" ELSE "sent"

\* A client opens /audio with the session id it chose.
WsOpen(h) ==
    /\ handlers[h].pc = "none"
    /\ \E session_id \in SessionIds :
         handlers' = [handlers EXCEPT ![h] = [NoHandler EXCEPT !.pc = "new",
                                                !.session_id = session_id]]
    /\ UNCHANGED <<apiVars, tableVars, manager, chunking>>

\* The client goes away: closes, or the network drops.
WsClientGone(h) ==
    /\ handlers[h].pc \notin {"none", "exited"}
    /\ ~handlers[h].gone
    /\ handlers' = [handlers EXCEPT ![h].gone = TRUE, ![h].last = "gone"]
    /\ UNCHANGED <<apiVars, tableVars, manager, chunking>>

\* finally: manager.disconnect(session_id), on every way out of the handler.
WsExit(h) ==
    /\ manager' = disconnect(manager, handlers[h].session_id)
    /\ handlers' = [handlers EXCEPT ![h].pc = "exited", ![h].last = "exit"]

\* Authentication fails: close(4001) and return.
WsAuthFails(h) ==
    /\ handlers[h].pc = "new"
    /\ WsExit(h)
    /\ UNCHANGED <<apiVars, tableVars, chunking>>

\* manager.connect up to the registration; accept raises for a client gone.
WsAccept(h) ==
    /\ handlers[h].pc = "new"
    /\ IF handlers[h].gone
       THEN WsExit(h)
       ELSE /\ manager' = connect(manager, h, handlers[h].session_id)
            /\ handlers' = [handlers EXCEPT ![h].pc = "confirming",
                                            ![h].last = "connect"]
    /\ UNCHANGED <<apiVars, tableVars, chunking>>

\* manager.connect: the confirmation, sent on the handler's own websocket; an
\* exception leaves the handler.
WsConfirm(h) ==
    /\ handlers[h].pc = "confirming"
    /\ \E fails \in IF handlers[h].gone THEN {TRUE, FALSE} ELSE {FALSE} :
         IF fails THEN WsExit(h)
         ELSE /\ handlers' = [handlers EXCEPT ![h].pc = "receiving",
                                              ![h].last = "confirmed"]
              /\ UNCHANGED manager
    /\ UNCHANGED <<apiVars, tableVars, chunking>>

\* websocket.receive() for a client that is gone: the disconnect message
\* (break) or an exception.
WsReceiveDisconnect(h) ==
    /\ handlers[h].pc = "receiving"
    /\ handlers[h].gone
    /\ WsExit(h)
    /\ UNCHANGED <<apiVars, tableVars, chunking>>

MessageTypes == {"audio_chunk", "bad_audio_chunk", "process_audio", "ping",
                 "unknown", "not_json"}

\* One message of the receive loop.
WsReceive(h) ==
    /\ handlers[h].pc = "receiving"
    /\ handlers[h].messages < MaxMessages
    /\ \E message_type \in MessageTypes, fails \in SendFails(handlers[h].session_id) :
         LET session_id == handlers[h].session_id
             sent == Sent(session_id, fails)
             counted == [handlers[h] EXCEPT !.messages = @ + 1]
         IN CASE message_type = "audio_chunk" ->
                   /\ manager' = send_message(add_audio_chunk(manager, session_id, "audio"),
                                              session_id, fails)
                   /\ handlers' = [handlers EXCEPT ![h] = [counted EXCEPT !.last = sent]]
              [] message_type = "process_audio" ->
                   /\ manager' = send_message(manager, session_id, fails)
                   /\ IF get_audio_buffer(manager, session_id) = <<>>
                      THEN handlers' = [handlers EXCEPT ![h] = [counted EXCEPT !.last = sent]]
                      ELSE \E n \in 1..MaxEvents :
                             handlers' = [handlers EXCEPT
                                            ![h] = [counted EXCEPT !.pc = "streaming",
                                                                   !.events = n,
                                                                   !.last = sent]]
              [] message_type = "not_json" ->
                   /\ UNCHANGED manager
                   /\ handlers' = [handlers EXCEPT ![h] = [counted EXCEPT !.last = "continue"]]
              [] OTHER ->
                   /\ manager' = send_message(manager, session_id, fails)
                   /\ handlers' = [handlers EXCEPT ![h] = [counted EXCEPT !.last = sent]]
    /\ UNCHANGED <<apiVars, tableVars, chunking>>

\* One event of the handle_voice_query in flight is passed to send_message.
WsStreamEvent(h) ==
    /\ handlers[h].pc = "streaming"
    /\ handlers[h].events > 0
    /\ \E fails \in SendFails(handlers[h].session_id) :
         /\ manager' = send_message(manager, handlers[h].session_id, fails)
         /\ handlers' = [handlers EXCEPT ![h].events = @ - 1,
                                         ![h].last = Sent(handlers[h].session_id, fails)]
    /\ UNCHANGED <<apiVars, tableVars, chunking>>

\* The generator is exhausted, or raised and the error was passed to
\* send_message: clear_audio_buffer, back to receive.
WsStreamEnd(h) ==
    /\ handlers[h].pc = "streaming"
    /\ \/ /\ handlers[h].events = 0
          /\ manager' = clear_audio_buffer(manager, handlers[h].session_id)
          /\ handlers' = [handlers EXCEPT ![h].pc = "receiving", ![h].last = "cleared"]
       \/ \E fails \in SendFails(handlers[h].session_id) :
             /\ manager' = clear_audio_buffer(
                              send_message(manager, handlers[h].session_id, fails),
                              handlers[h].session_id)
             /\ handlers' = [handlers EXCEPT ![h].pc = "receiving", ![h].events = 0,
                                             ![h].last = Sent(handlers[h].session_id, fails)]
    /\ UNCHANGED <<apiVars, tableVars, chunking>>

WebSocketAudio ==
    \E h \in HandlerIds :
        \/ WsOpen(h) \/ WsClientGone(h) \/ WsAuthFails(h) \/ WsAccept(h)
        \/ WsConfirm(h) \/ WsReceiveDisconnect(h) \/ WsReceive(h)
        \/ WsStreamEvent(h) \/ WsStreamEnd(h)

NextWs == WebSocketAudio
SpecWs == InitSearch /\ [][NextWs]_vars

----------------------------------------------------------------------------
(* Worker._chunk_text *)

MaxTextLen == 6
MaxChunkSize == 3

\* Texts are sequences of characters; " " is the whitespace.
Alphabet == {"a", " "}
ChunkTexts == UNION {[1..n -> Alphabet] : n \in 0..MaxTextLen}

\* A statement "name = expression": the expression is evaluated once and
\* the body reads the value.
Bind(value, Body(_)) == CHOOSE result \in {Body(x) : x \in {value}} : TRUE

\* text[start:end], positions counted from 0.
Slice(text, start, end) == SubSeq(text, start + 1, Min(end, Len(text)))

\* text.rfind(' ', start, end): the last position of a space in
\* text[start:end], or -1.
RFindSpace(text, start, end) ==
    LET at == {i \in start..(Min(end, Len(text)) - 1) : text[i + 1] = " "}
    IN IF at = {} THEN -1 ELSE CHOOSE i \in at : \A j \in at : j <= i

\* str.strip(): how many whitespace characters lead and trail, what is left.
RECURSIVE Leading(_)
Leading(str) ==
    IF str = <<>> \/ str[1] # " " THEN 0 ELSE 1 + Leading(Tail(str))

RECURSIVE Trailing(_)
Trailing(str) ==
    IF str = <<>> \/ str[Len(str)] # " " THEN 0
    ELSE 1 + Trailing(SubSeq(str, 1, Len(str) - 1))

Strip(str) ==
    IF Leading(str) = Len(str) THEN <<>>
    ELSE SubSeq(str, Leading(str) + 1, Len(str) - Trailing(str))

\* start = max(start + 1, end - overlap)
NextStartSkips(start, end, overlap) == Max(start + 1, end + 1)
NextStart(start, end, overlap) == Max(start + 1, end - overlap)

\* One iteration of the while loop at start: the end it cuts at, the chunk,
\* the next start.
ChunkStep(text, chunk_size, overlap, start) ==
    LET whole == start + chunk_size
        last_space == RFindSpace(text, start, whole)
    IN Bind(IF whole < Len(text) /\ last_space > start
            THEN last_space + 1 ELSE whole,
            LAMBDA end :
              [end |-> end, chunk |-> Strip(Slice(text, start, end)),
               start |-> NextStart(start, end, overlap)])

\* The while loop from start on: the chunks it appends.
RECURSIVE ChunkLoop(_, _, _, _)
ChunkLoop(text, chunk_size, overlap, start) ==
    IF start >= Len(text) THEN <<>>
    ELSE Bind(ChunkStep(text, chunk_size, overlap, start),
              LAMBDA step :
                (IF step.chunk # <<>> THEN <<step.chunk>> ELSE <<>>)
                  \o ChunkLoop(text, chunk_size, overlap, step.start))

\* _chunk_text(text, chunk_size, overlap): the list it returns.
_chunk_text(text, chunk_size, overlap) ==
    IF Len(text) <= chunk_size THEN <<text>>
    ELSE ChunkLoop(text, chunk_size, overlap, 0)

\* The call: a text no longer than chunk_size is returned whole.
ChunkCall ==
    /\ chunking.pc = "call"
    /\ chunking' =
         IF Len(chunking.text) <= chunking.chunk_size
         THEN [chunking EXCEPT !.pc = "done", !.chunks = <<chunking.text>>,
                               !.windows = <<[start |-> 0, end |-> Len(chunking.text)]>>]
         ELSE [chunking EXCEPT !.pc = "loop", !.start = 0]
    /\ UNCHANGED <<apiVars, tableVars, manager, handlers>>

\* One iteration of the while loop. windows keeps, for every chunk appended,
\* the start and end it was cut at.
ChunkIterate ==
    /\ chunking.pc = "loop"
    /\ chunking.start < Len(chunking.text)
    /\ LET step == ChunkStep(chunking.text, chunking.chunk_size,
                             chunking.overlap, chunking.start)
       IN chunking' =
            [chunking EXCEPT
               !.chunks = IF step.chunk # <<>> THEN Append(@, step.chunk) ELSE @,
               !.windows = IF step.chunk # <<>>
                           THEN Append(@, [start |-> chunking.start,
                                           end |-> step.end])
                           ELSE @,
               !.start = step.start]
    /\ UNCHANGED <<apiVars, tableVars, manager, handlers>>

\* The loop condition fails: return chunks.
ChunkReturn ==
    /\ chunking.pc = "loop"
    /\ chunking.start >= Len(chunking.text)
    /\ chunking' = [chunking EXCEPT !.pc = "done"]
    /\ UNCHANGED <<apiVars, tableVars, manager, handlers>>

\* The arguments of the call: any text, 0 <= overlap < chunk_size.
InitChunk ==
    /\ InitBase
    /\ settings \in [default_rpm : {2}, default_burst : {2},
                     enable_fallback_llm : {TRUE}]
    /\ mmr = NoRerank
    /\ InitManager
    /\ InitTables
    /\ \E text \in ChunkTexts, chunk_size \in 1..MaxChunkSize :
         \E overlap \in 0..(chunk_size - 1) :
            chunking = [pc |-> "call", text |-> text, chunk_size |-> chunk_size,
                        overlap |-> overlap, start |-> 0, chunks |-> <<>>,
                        windows |-> <<>>]

NextChunk == ChunkCall \/ ChunkIterate \/ ChunkReturn
SpecChunk == InitChunk /\ [][NextChunk]_vars

\* The function runs on: no step of it waits for anything.
SpecChunkLive == SpecChunk /\ WF_vars(NextChunk)

----------------------------------------------------------------------------
(* worker/main.py: Worker._embed_document and Worker._reindex_organization *)

\* chunk_size=800 and overlap=100 of _embed_document and the limit(10) of the
\* sweep, scaled to the texts of the model.
EmbedChunkSize == 3
EmbedOverlap == 1
SweepLimit == 2

\* invalidate_cache(f"{namespace}:{id}:*"): redis.keys(pattern), then delete.
KeyMatches(key, namespace, id) ==
    key[1] = namespace /\ Len(key) >= 3 /\ key[2] = Str(Some(id))

invalidate_cache(store, namespace, id) ==
    [key \in {x \in DOMAIN store : ~KeyMatches(x, namespace, id)} |-> store[key]]

EmbeddingsOf(tbl, doc_id) == {row \in tbl.rows : row.doc_id = doc_id}

\* db.add_all(rows); db.commit(): the rows get the next ids.
AddAll(tbl, found) ==
    [rows |-> tbl.rows \cup {[found[i] EXCEPT !.id = tbl.next_id + i - 1] :
                               i \in 1..Len(found)},
     next_id |-> tbl.next_id + Len(found)]

\* The loop over the chunks from chunk i on: the rows built, the store after
\* the get_embedding calls, their number. good: the chunks the model embeds.
RECURSIVE EmbedChunks(_, _, _, _, _)
EmbedChunks(store, doc_id, chunks, i, good) ==
    IF i > Len(chunks) THEN [kv |-> store, found |-> <<>>, calls |-> 0]
    ELSE Bind(get_embedding(store, chunks[i], i \in good),
              LAMBDA e :
                LET row == [id |-> 0, doc_id |-> doc_id, chunk_text |-> chunks[i],
                            chunk_start |-> (i - 1) * EmbedChunkSize,
                            chunk_end |-> Min(i * EmbedChunkSize,
                                              Len(docs[doc_id].text)),
                            vector |-> e.value]
                IN Bind(EmbedChunks(e.kv, doc_id, chunks, i + 1, good),
                        LAMBDA rest :
                          [kv |-> rest.kv,
                           found |-> (IF e.value # None /\ e.value[1] # <<>>
                                      THEN <<row>> ELSE <<>>) \o rest.found,
                           calls |-> 1 + rest.calls]))

embed_document_again(tbl, store, doc_id, good) ==
    IF doc_id \notin LiveIds
    THEN [embeddings |-> tbl, kv |-> store, calls |-> 0, outcome |-> "not_found"]
    ELSE Bind(_chunk_text(docs[doc_id].text, EmbedChunkSize, EmbedOverlap),
              LAMBDA chunks :
                 Bind(EmbedChunks(store, doc_id, chunks, 1, good),
                 LAMBDA walk :
                   [embeddings |-> AddAll(tbl, walk.found), kv |-> walk.kv,
                    calls |-> walk.calls, outcome |-> "embedded"]))

\* _embed_document(doc_id), in a session of its own: the committed table and
\* the store after it, the number of get_embedding calls, how it ended.  An
\* exception (Redis not answering) is logged and the session rolled back.
embed_document(tbl, store, doc_id, good) ==
    LET unchanged == [embeddings |-> tbl, kv |-> store, calls |-> 0]
    IN IF doc_id \notin LiveIds
       THEN unchanged @@ [outcome |-> "not_found"]
       ELSE IF EmbeddingsOf(tbl, doc_id) # {}
       THEN unchanged @@ [outcome |-> "skipped"]
       ELSE IF ~redisUp
       THEN [unchanged EXCEPT !.calls = 1] @@ [outcome |-> "raised"]
       ELSE Bind(_chunk_text(docs[doc_id].text, EmbedChunkSize, EmbedOverlap),
                 LAMBDA chunks :
                 Bind(EmbedChunks(store, doc_id, chunks, 1, good),
                 LAMBDA walk :
                   IF walk.found = <<>>
                   THEN [embeddings |-> tbl, kv |-> walk.kv, calls |-> walk.calls,
                         outcome |-> "none_generated"]
                   ELSE [embeddings |-> AddAll(tbl, walk.found),
                         kv |-> invalidate_cache(walk.kv, "doc", doc_id),
                         calls |-> walk.calls, outcome |-> "embedded"]))

\* The documents of _reindex_organization's for loop, from position i on.
\* goods: for each document, the chunks the model embeds.
RECURSIVE EmbedEach(_, _, _, _, _)
EmbedEach(tbl, store, ids, i, goods) ==
    IF i > Len(ids) THEN [embeddings |-> tbl, kv |-> store, log |-> <<>>]
    ELSE Bind(embed_document(tbl, store, ids[i], goods[ids[i]]),
              LAMBDA e :
                [EmbedEach(e.embeddings, e.kv, ids, i + 1, goods)
                    EXCEPT !.log = <<[doc_id |-> ids[i], outcome |-> e.outcome,
                                      calls |-> e.calls]>> \o @])

Ascending(S) == LET d == Descending(S) IN [i \in 1..Len(d) |-> d[Len(d) + 1 - i]]

\* _reindex_organization(org_id).  The bulk delete on the joined query either
\* raises or runs inside the session of the call; that session is never
\* committed, so the delete is rolled back by db.close().  Every
\* _embed_document opens its own session and sees the committed rows only.
\* join_delete: what Query.delete() does after join().
reindex_organization(tbl, store, org_id, join_delete, goods) ==
    LET ids == Ascending({id \in LiveIds : docs[id].org_id = org_id})
    IN IF join_delete = "raises"
       THEN [embeddings |-> tbl, kv |-> store, log |-> <<>>, outcome |-> "raised"]
       ELSE Bind(EmbedEach(tbl, store, ids, 1, goods),
                 LAMBDA each :
                   IF ~redisUp
                   THEN [embeddings |-> each.embeddings, kv |-> each.kv,
                         log |-> each.log, outcome |-> "raised"]
                   ELSE [embeddings |-> each.embeddings,
                         kv |-> invalidate_cache(each.kv, "org", org_id),
                         log |-> each.log, outcome |-> "completed"])

----------------------------------------------------------------------------
(* worker/main.py: the task loop, the tasks, the sweep *)

MaxTasks == 2

TaskIds == 1..MaxTasks

\* What a producer may have written under worker:task:<id>; doc_id and org_id
\* are None when the field is missing (int(None) raises).
TaskRecords ==
    [type : {"embed_doc"}, doc_id : {None, Some(1), Some(2)}, org_id : {None},
     status : {"queued"}, error : {None}]
      \cup
    [type : {"reindex_org"}, doc_id : {None}, org_id : {None, Some(1)},
     status : {"queued"}, error : {None}]
      \cup
    [type : {"unknown"}, doc_id : {None}, org_id : {None},
     status : {"queued"}, error : {None}]

\* The chunks of a document the embedding model takes in one call of
\* _embed_document: all of them for the documents of canEmbed.
GoodChoices(doc_id) ==
    IF doc_id \in canEmbed THEN {1..MaxTextLen} ELSE {{}, {1}}

Goods ==
    {goods \in [1..Len(docs) -> {{}, {1}, 1..MaxTextLen}] :
        \A doc_id \in 1..Len(docs) : goods[doc_id] \in GoodChoices(doc_id)}

\* What Query.delete() does after join(), the exception first.
JoinDeleteOutcomes == <<"raises", "runs">>

\* hset(status), hset(error): the hash is created when it is missing.
MarkTaskEvery(table, task_id, status, error) ==
    [id \in DOMAIN table \cup {task_id} |->
        IF id \in DOMAIN table
        THEN [table[id] EXCEPT !.status = status, !.error = error]
        ELSE [type |-> "none", doc_id |-> None, org_id |-> None,
              status |-> status, error |-> error]]

MarkTask(table, task_id, status, error) ==
    LET old == IF task_id \in DOMAIN table THEN table[task_id]
               ELSE [type |-> "none", doc_id |-> None, org_id |-> None,
                     status |-> "none", error |-> None]
    IN With(table, task_id, [old EXCEPT !.status = status, !.error = error])

\* A producer queues a task, with or without its record.
EnqueueTask ==
    /\ \E task_id \in TaskIds :
         /\ task_id \notin Range(queue) /\ task_id \notin inflight
         /\ task_id \notin DOMAIN taskTable
         /\ queue' = Append(queue, task_id)
         /\ \/ \E record \in TaskRecords : taskTable' = With(taskTable, task_id, record)
            \/ UNCHANGED taskTable
         /\ lastWork' = [op |-> "enqueued", task_id |-> task_id]
    /\ UNCHANGED <<apiVars, manager, handlers, chunking, raceVars, embeddings, canEmbed, inflight,
                   workerPc>>

\* _process_tasks, first half: blpop, create_task for the id it returns.
WorkerPoll ==
    /\ workerPc = "blpop"
    /\ IF queue # <<>>
       THEN /\ queue' = Tail(queue)
            /\ inflight' = inflight \cup {Head(queue)}
       ELSE UNCHANGED <<queue, inflight>>
    /\ lastWork' = [op |-> "polled"]
    /\ workerPc' = "sweep"
    /\ UNCHANGED <<apiVars, manager, handlers, chunking, raceVars, embeddings, canEmbed, taskTable>>

\* _process_embed_task(task_id), as the asyncio task created for it.
WorkerTask(task_id) ==
    /\ task_id \in inflight
    /\ inflight' = inflight \ {task_id}
    /\ IF task_id \notin DOMAIN taskTable
       THEN /\ lastWork' = [op |-> "task", task_id |-> task_id, type |-> "none",
                            before |-> embeddings, kv_before |-> kv, log |-> <<>>,
                            outcome |-> "not_found"]
            /\ UNCHANGED <<embeddings, kv, taskTable>>
       ELSE LET task_data == taskTable[task_id]
                work == [op |-> "task", task_id |-> task_id, type |-> task_data.type,
                         before |-> embeddings, kv_before |-> kv]
            IN CASE task_data.type = "embed_doc" /\ task_data.doc_id # None ->
                      \E goods \in Goods :
                        LET doc_id == task_data.doc_id[1]
                        IN \E e \in {embed_document(embeddings, kv, doc_id,
                                                    IF doc_id \in DOMAIN goods
                                                    THEN goods[doc_id] ELSE {})} :
                           /\ embeddings' = e.embeddings
                           /\ kv' = e.kv
                           /\ taskTable' = MarkTask(taskTable, task_id, "completed", None)
                           /\ lastWork' = work @@
                                [log |-> <<[doc_id |-> doc_id, outcome |-> e.outcome,
                                            calls |-> e.calls]>>,
                                 outcome |-> "completed"]
                 [] task_data.type = "reindex_org" /\ task_data.org_id # None ->
                      \E goods \in Goods, i \in DOMAIN JoinDeleteOutcomes :
                        \E r \in {reindex_organization(embeddings, kv,
                                                        task_data.org_id[1],
                                                        JoinDeleteOutcomes[i],
                                                        goods)} :
                           /\ embeddings' = r.embeddings
                           /\ kv' = r.kv
                           /\ taskTable' = MarkTask(taskTable, task_id, "completed", None)
                           /\ lastWork' = work @@
                                [log |-> r.log, outcome |-> "completed",
                                 reindex |-> r.outcome, org_id |-> task_data.org_id[1]]
                 [] task_data.type = "unknown" ->
                      /\ taskTable' = MarkTask(taskTable, task_id, "completed", None)
                      /\ lastWork' = work @@ [log |-> <<>>, outcome |-> "completed"]
                      /\ UNCHANGED <<embeddings, kv>>
                 [] OTHER ->
                      /\ taskTable' = MarkTask(taskTable, task_id, "failed",
                                               Some("TypeError"))
                      /\ lastWork' = work @@ [log |-> <<>>, outcome |-> "failed"]
                      /\ UNCHANGED <<embeddings, kv>>
    /\ UNCHANGED <<now, ticks, redisUp, settings, zsets, docs, deleted, recLog,
                   lastCheck, lastSearch, req, served, llm, cacheLog, mmr,
                   manager, handlers, chunking, raceVars, canEmbed, queue, workerPc>>

\* _process_tasks, second half: _process_pending_embeddings.  The query has a
\* limit and no order: the database returns any SweepLimit of the documents
\* without embeddings.
WorkerSweep ==
    /\ workerPc = "sweep"
    /\ workerPc' = "blpop"
    /\ LET lacking == {id \in LiveIds : EmbeddingsOf(embeddings, id) = {}}
       IN \E batch \in SUBSET lacking, goods \in Goods :
            /\ Cardinality(batch) = Min(SweepLimit, Cardinality(lacking))
            /\ \E each \in {EmbedEach(embeddings, kv, Ascending(batch), 1, goods)} :
                  /\ embeddings' = each.embeddings
                  /\ kv' = each.kv
                  /\ lastWork' = [op |-> "sweep", before |-> embeddings,
                                  kv_before |-> kv, log |-> each.log]
    /\ UNCHANGED <<now, ticks, redisUp, settings, zsets, docs, deleted, recLog,
                   lastCheck, lastSearch, req, served, llm, cacheLog, mmr,
                   manager, handlers, chunking, raceVars, canEmbed, queue, taskTable, inflight>>

WorkerTasks == \E task_id \in TaskIds : WorkerTask(task_id)

\* The documents the worker finds in table doc, the cache entries the API
\* wrote before.
ShortDoc(org_id) == [org_id |-> org_id, title |-> <<"policy">>, text |-> <<"a", "a">>]
LongDoc(org_id) ==
    [org_id |-> org_id, title |-> <<"policy">>, text |-> <<"a", "a", " ", "a", "a">>]
WorkerCorpora ==
    {<<LongDoc(1), ShortDoc(2)>>, <<ShortDoc(1), LongDoc(1), ShortDoc(2)>>}
WorkerCaches ==
    {<<>>,
     set_search_cache(set_response_cache(<<>>, <<"hipaa">>, [response |-> <<"O", "K">>],
                                         Some(1)),
                      <<"hipaa">>, <<1>>, Some(1))}

InitWorker ==
    /\ now = 0 /\ ticks = 0 /\ redisUp = TRUE
    /\ settings \in [default_rpm : {2}, default_burst : {2},
                     enable_fallback_llm : {TRUE}]
    /\ zsets = [k \in RateKeys |-> EmptyZ]
    /\ recLog = [k \in RateKeys |-> <<>>]
    /\ lastCheck = NoCheck /\ lastSearch = NoSearch /\ req = NoRequest
    /\ served = 0 /\ llm = NoLLM /\ cacheLog = <<>> /\ mmr = NoRerank
    /\ deleted = {}
    /\ docs \in WorkerCorpora
    /\ kv \in WorkerCaches
    /\ chunking = NoChunking
    /\ InitManager
    /\ embeddings = NoEmbeddings
    /\ canEmbed \in SUBSET (1..Len(docs))
    /\ queue = <<>> /\ taskTable = <<>> /\ inflight = {}
    /\ lastWork = NoWork
    /\ workerPc = "blpop"
    /\ InitRaces

NextWorker == EnqueueTask \/ WorkerPoll \/ WorkerTasks \/ WorkerSweep
SpecWorker == InitWorker /\ [][NextWorker]_vars

\* The loop runs on (poll, sweep, poll, ...) and the event loop runs every
\* task it was given; the worker starts on a backlog of three documents, all
\* of them embeddable or only the first.
InitWorkerLive ==
    /\ InitWorker
    /\ Len(docs) = 3
    /\ kv = <<>>
    /\ canEmbed \in {{1}, 1..Len(docs)}

SpecWorkerLive ==
    /\ InitWorkerLive /\ [][NextWorker]_vars
    /\ WF_vars(WorkerPoll) /\ WF_vars(WorkerSweep)
    /\ \A task_id \in TaskIds : WF_vars(WorkerTask(task_id))

----------------------------------------------------------------------------
(* worker/main.py: _embed_document coroutines running side by side *)

\* Run 1 is the _embed_document the sweep awaits, the other runs belong to
\* the asyncio tasks created for queued embed_doc tasks.  The database
\* calls are synchronous, so a coroutine runs undisturbed from its start to
\* its first get_embedding, and gives way to the others there.
SweepRun == 1

\* _embed_document up to the first await: the document is looked up and its
\* embedding rows are counted.  The sweep calls it for a document its query
\* has just returned, one without embeddings.
RunStart(r) ==
    /\ runs[r].pc = "idle"
    /\ \E doc_id \in LiveIds :
         /\ r = SweepRun => EmbeddingsOf(embeddings, doc_id) = {}
         /\ runs' = [runs EXCEPT ![r] =
                       [pc |-> IF EmbeddingsOf(embeddings, doc_id) # {}
                               THEN "skipped" ELSE "embedding",
                        doc_id |-> doc_id, found |-> <<>>]]
    /\ UNCHANGED <<apiVars, manager, handlers, chunking, callers, embeddings,
                   canEmbed, queue, taskTable, inflight, lastWork, workerPc>>

\* _embed_document from the first get_embedding on: the chunks are embedded,
\* the rows are added and committed, the document's cache is cleared.
RunCommit(r) ==
    /\ runs[r].pc = "embedding"
    /\ \E good \in GoodChoices(runs[r].doc_id) :
       \E chunks \in {_chunk_text(docs[runs[r].doc_id].text,
                                  EmbedChunkSize, EmbedOverlap)} :
       \E walk \in {EmbedChunks(kv, runs[r].doc_id, chunks, 1, good)} :
         IF ~redisUp
         THEN /\ runs' = [runs EXCEPT ![r].pc = "raised"]
              /\ UNCHANGED <<embeddings, kv>>
         ELSE IF walk.found = <<>>
         THEN /\ runs' = [runs EXCEPT ![r].pc = "none_generated"]
              /\ kv' = walk.kv
              /\ UNCHANGED embeddings
         ELSE /\ runs' = [runs EXCEPT ![r].pc = "embedded",
                                      ![r].found = walk.found]
              /\ embeddings' = AddAll(embeddings, walk.found)
              /\ kv' = invalidate_cache(walk.kv, "doc", runs[r].doc_id)
    /\ UNCHANGED <<now, ticks, redisUp, settings, zsets, docs, deleted, recLog,
                   lastCheck, lastSearch, req, served, llm, cacheLog, mmr,
                   manager, handlers, chunking, callers, canEmbed, queue,
                   taskTable, inflight, lastWork, workerPc>>

\* The coroutine returns; the sweep or another task may call again.
RunReturn(r) ==
    /\ runs[r].pc \in {"skipped", "raised", "none_generated", "embedded"}
    /\ runs' = [runs EXCEPT ![r] = NoRun]
    /\ UNCHANGED <<apiVars, manager, handlers, chunking, callers, embeddings,
                   canEmbed, queue, taskTable, inflight, lastWork, workerPc>>

RunStarts == \E r \in RunIds : RunStart(r)
RunCommits == \E r \in RunIds : RunCommit(r)
RunReturns == \E r \in RunIds : RunReturn(r)

NextEmbedRace == RunStarts \/ RunCommits \/ RunReturns
SpecEmbedRace == InitWorker /\ [][NextEmbedRace]_vars

----------------------------------------------------------------------------
(* Properties of the rate limiter *)

\* C3: rate limiter soundness. With rpm = R and burst >= R, a check made
\* when R or more record_request calls for the key lie less than 60 s back
\* (several of them possibly in the same clock second) is denied; and when
\* exactly R calls were recorded and the clock is more than 60 s past the
\* oldest of them, the check allows again.
C3_RateLimiterSoundness ==
    lastCheck.kind = "result" /\ lastCheck.burst >= lastCheck.rpm =>
        LET log == recLog[lastCheck.key]
        IN /\ Cardinality(RecentRecords(lastCheck.key)) >= lastCheck.rpm
                => ~lastCheck.allowed
           /\ (Len(log) = lastCheck.rpm /\ now - log[1] > 60)
                => lastCheck.allowed

----------------------------------------------------------------------------
(* Properties of the search service *)

C9_SearchTenantGuard ==
    (lastSearch.kind = "result" /\ ~Truthy(lastSearch.org_id)) =>
        /\ lastSearch.outcome = "raised"
        /\ lastSearch.calls = <<>>

----------------------------------------------------------------------------
(* Properties of the orchestrator *)

LastEvent(r) == r.events[Len(r.events)]
TerminalTypes == {"final", "chat_response", "error"}

\* The request in hand was answered from the response cache.
ServedFromCache ==
    /\ req.pc = "done"
    /\ \/ /\ req.kind = "voice"
          /\ LastEvent(req).type = "chat_response"
       \/ /\ req.kind = "text"
          /\ req.out.kind = "ChatResponse"
          /\ req.out.cached

\* The organization recorded in the cache entry that answered it.
HitOrg ==
    IF req.kind = "voice" THEN LastEvent(req).entry_org ELSE req.out.entry_org

\* C2: tenant isolation of the response cache. A request answered from the
\* response cache is answered with an entry that a request of its own
\* organization wrote; every response and search key in the store carries an
\* organization id, the one of the request that wrote the entry, and the
\* embedding keys carry none.
C2_ResponseCacheIsolation ==
    /\ ServedFromCache => HitOrg = req.org_id
    /\ \A key \in DOMAIN kv :
         IF key[1] = "embedding_cache"
         THEN Len(key) = 2 /\ key[2][1] = "sha256"
         ELSE /\ key[1] \in {"response_cache", "search_cache"}
              /\ Len(key) = 3
              /\ \E o \in Orgs :
                   /\ key[2] = Str(Some(o))
                   /\ key[1] = "response_cache"
                        => pickle_loads(kv[key].data).org_id = Some(o)

\* C2 witness: a request of organization 2 has looked up the response cache
\* and missed while the store holds the answer organization 1 cached for
\* the same text.
C2_Witness ==
    /\ req.pc = "search"
    /\ req.org_id = Some(2)
    /\ ResponseKey(req.text, Some(1)) \in DOMAIN kv

RateLimitPrefix == "Rate limit exceeded. Try again in "

\* The request in hand ended rejected for rate limiting.
RateLimited ==
    /\ req.pc = "done"
    /\ \/ /\ req.kind = "voice"
          /\ LastEvent(req).type = "error"
          /\ LastEvent(req).data[1] = RateLimitPrefix
       \/ /\ req.kind = "text"
          /\ req.out.kind = "Exception"
          /\ req.out.message[1] = RateLimitPrefix
       \/ /\ req.kind = "text"
          /\ req.out.kind = "HTTPException"
          /\ \E i \in 1..Len(req.out.detail) :
               req.out.detail[i] = RateLimitPrefix

\* C4: a rate-limited request is neither charged nor processed. No request
\* calls check_rate_limit after it has called record_request, and a request
\* that ended rejected for rate limiting has recorded nothing and has called
\* neither the cache, the search nor a generator.
C4_RateLimitedNotCharged ==
    /\ \A i, j \in 1..Len(req.calls) :
         (i < j /\ req.calls[i] = "record_request")
            => req.calls[j] # "check_rate_limit"
    /\ RateLimited =>
         Range(req.calls) \subseteq {"transcribe_audio", "check_rate_limit"}

\* A cache call of the request in hand found the store unreachable.
CacheFailed ==
    \E i \in 1..Len(req.raised) :
        req.raised[i] \in {"get_response_cache", "set_response_cache", "search"}

\* C5: cache unavailability degrades to a miss. A request one of whose
\* cache reads or writes found the store unreachable still ends with a
\* final event or a ChatResponse.
C5_CacheDownIsMiss ==
    CacheFailed =>
        /\ req.pc = "done"
        /\ \/ req.kind = "voice" /\ LastEvent(req).type = "final"
           \/ req.kind = "text" /\ req.out.kind = "ChatResponse"

\* The text reports a generation error: it holds the error token of
\* stream_chat, or it is the text handle_text_query builds when the
\* generator call raised.
ReportsGenerationError(response) ==
    \/ \E i \in 1..Len(response) :
         SubSeq(response, i, Len(response)) = ErrorToken
    \/ \E e \in {"AttributeError"} : response = GenerationErrorText(e)

\* C6: only real answers are cached. Every entry of the response cache
\* holds a non-empty answer that does not report a generation error.
C6_OnlyRealAnswersCached ==
    \A key \in DOMAIN kv :
        key[1] = "response_cache" =>
            LET response == pickle_loads(kv[key].data).response
            IN response # <<>> /\ ~ReportsGenerationError(response)

\* The events of the voice query in hand are well formed: none but the last
\* is terminal, and the last is terminal exactly when the query has ended.
VoiceEventsWellFormed ==
    req.kind = "voice" =>
        /\ req.events # <<>>
        /\ \A i \in 1..(Len(req.events) - 1) :
             req.events[i].type \notin TerminalTypes
        /\ req.pc = "done" <=> LastEvent(req).type \in TerminalTypes

\* C7: every voice stream terminates with a terminal event. A voice query
\* that has started ends, its last event is a final, chat_response or error
\* event, and no event before the last is one of these.
C7_VoiceStreamTerminates ==
    /\ []VoiceEventsWellFormed
    /\ (req.kind = "voice" /\ req.pc # "done")
          ~> (req.kind = "voice" /\ req.pc = "done"
                /\ LastEvent(req).type \in TerminalTypes)

\* C7 witness: a stream that ended with a final event after tokens.
C7_Witness ==
    /\ req.kind = "voice"
    /\ req.pc = "done"
    /\ LastEvent(req).type = "final"
    /\ req.ntok > 0

\* C8: an exception raised by a collaborator of handle_voice_query, in
\* whatever state and after however many tokens, ends the query with an
\* error event as its last event; no exception leaves the generator.
C8_VoiceExceptionsBecomeEvents ==
    req.kind = "voice" =>
        /\ req.out.kind = "none"
        /\ req.raised # <<>> =>
             /\ req.pc = "done"
             /\ LastEvent(req).type = "error"
             /\ LastEvent(req).data[1] = "An error occurred: "

\* C8 witness: the cache write raised after tokens had been emitted.
C8_Witness ==
    /\ req.kind = "voice"
    /\ req.raised = <<"set_response_cache">>
    /\ req.ntok > 0
    /\ LastEvent(req).type = "error"

\* C10: a request without an organization id never reaches the search or a
\* generator: it makes neither call, produces no answer, and ends with an
\* error event (voice) or an exception (text).
C10_NoSearchWithoutOrg ==
    (req.kind \in {"voice", "text"} /\ ~Truthy(req.org_id)) =>
        /\ Range(req.calls) \cap {"search", "stream_chat", "chat"} = {}
        /\ req.response_text = <<>>
        /\ req.pc = "done" =>
             IF req.kind = "voice"
             THEN LastEvent(req).type = "error"
             ELSE req.out.kind \in {"Exception", "HTTPException"}

\* C10 witness: a voice query and a text query without an organization id
\* stopped at the organization check that precedes the search.
C10_Witness ==
    /\ req.pc = "done"
    /\ ~Truthy(req.org_id)
    /\ \/ /\ req.kind = "voice"
          /\ LastEvent(req).data = <<"Organization ID is required for security">>
       \/ /\ req.kind = "text"
          /\ req.out.kind = "Exception"
          /\ req.out.message = <<"Organization ID is required for security">>

\* C11: a voice cache hit short-circuits. A voice query goes on to the
\* search only when the response cache holds no entry for its transcript and
\* organization; a query answered from the cache has yielded one
\* chat_response event with the entry's answer and sources and cached = true
\* as its last event, and has called neither the search, a generator nor
\* set_response_cache.
C11_VoiceCacheHitShortCircuits ==
    req.kind = "voice" =>
        /\ req.pc = "search"
             => RedisGet(kv, ResponseKey(req.text, req.org_id)) = None
        /\ ServedFromCache =>
             LET stored == RedisGet(kv, ResponseKey(req.text, req.org_id))
                 e == LastEvent(req)
             IN /\ stored # None
                /\ e.data = pickle_loads(stored[1]).response
                /\ e.sources = pickle_loads(stored[1]).sources
                /\ e.cached
                /\ Cardinality({i \in 1..Len(req.events) :
                                  req.events[i].type = "chat_response"}) = 1
                /\ Range(req.calls) \cap
                     {"search", "stream_chat", "set_response_cache"} = {}
                /\ req.response_text = <<>>

\* C11 witness: a voice query answered from the cache with an answer that
\* came with a source.
C11_Witness ==
    /\ req.kind = "voice"
    /\ ServedFromCache
    /\ LastEvent(req).sources # <<>>

\* C12: a transcription failure is terminal and not retried. A voice query
\* whose transcriber reported an error has ended with an error event, having
\* called the transcriber once and no other collaborator.
C12_TranscriptionFailureTerminal ==
    (req.kind = "voice" /\ req.stt_error # None) =>
        /\ req.pc = "done"
        /\ LastEvent(req).type = "error"
        /\ req.calls = <<"transcribe_audio">>

\* The stages of a voice query in the order of the code.
StageOrder ==
    <<"transcribe_audio", "check_rate_limit", "record_request",
      "get_response_cache", "search", "stream_chat", "set_response_cache">>

StageIndex(name) == CHOOSE i \in 1..Len(StageOrder) : StageOrder[i] = name

\* C13: stage ordering within one voice query. The collaborator calls of a
\* voice query are made in the order transcribe, rate check, rate record,
\* response-cache read, search, generate, response-cache write, each at most
\* once; a rate record directly follows its rate check, and a final event
\* comes last, after the generator was called.
C13_VoiceStageOrder ==
    req.kind = "voice" =>
        /\ Range(req.calls) \subseteq Range(StageOrder)
        /\ \A i, j \in 1..Len(req.calls) :
             i < j => StageIndex(req.calls[i]) < StageIndex(req.calls[j])
        /\ \A i \in 1..Len(req.calls) :
             req.calls[i] = "record_request"
                => i > 1 /\ req.calls[i - 1] = "check_rate_limit"
        /\ \A i \in 1..Len(req.events) :
             req.events[i].type = "final"
                => /\ i = Len(req.events)
                   /\ "stream_chat" \in Range(req.calls)

\* C13 witness: a voice query that went through every stage and ended with
\* the final event.
C13_Witness ==
    /\ req.kind = "voice"
    /\ req.calls = StageOrder
    /\ LastEvent(req).type = "final"

----------------------------------------------------------------------------
(* The two handlers run to their end on the same state with the same        *)
(* collaborator outcomes: the operations made, the rate-limit windows and   *)
(* the store they leave, and how they end.                                  *)

\* What the generator of a run does: the provider answers, or every model
\* fails.
GenOutcomes == {"answers", "fails"}

\* The tokens of stream_chat joined.
StreamedText(gen) == IF gen = "answers" THEN <<"O", "K">> ELSE ErrorToken

RunEnd(ops, zs, store, end) ==
    [ops |-> ops, zsets |-> zs, kv |-> store, end |-> end]

\* Steps 2-6 of handle_voice_query from the transcript on.
VoiceRun(zs, store, org_id, user_id, text, model_ok, scan, gen) ==
    LET key == RateKey(org_id, user_id)
        limited == Truthy(org_id)
        res == check_rate_limit(zs[key], org_id, None, None)
        zs1 == IF limited THEN [zs EXCEPT ![key] = CheckPipeline(@)] ELSE zs
        zs2 == IF limited THEN [zs1 EXCEPT ![key] = record_request(@)] ELSE zs
        ops2 == IF limited THEN <<"check_rate_limit", "record_request">>
                ELSE <<>>
        ops3 == Append(ops2, "get_response_cache")
        found == search(store, text, default_search_k, org_id, model_ok, scan)
        r == [response_text |-> StreamedText(gen),
              search_results |-> found.results,
              org_id |-> org_id, user_id |-> user_id]
    IN IF ~redisUp
       THEN RunEnd(IF limited THEN <<"check_rate_limit">> ELSE ops3,
                   zs, store, "error")
       ELSE IF limited /\ ~res.allowed
       THEN RunEnd(<<"check_rate_limit">>, zs1, store, "error")
       ELSE IF get_response_cache(store, text, org_id) # None
       THEN RunEnd(ops3, zs2, store, "answer")
       ELSE IF MissingOrg(org_id)
       THEN RunEnd(ops3, zs2, store, "error")
       ELSE IF ShouldCache(r.response_text)
       THEN RunEnd(ops3 \o <<"search", "generate", "set_response_cache">>, zs2,
                   set_response_cache(found.kv, text, Payload(r), org_id),
                   "answer")
       ELSE RunEnd(ops3 \o <<"search", "generate">>, zs2, found.kv, "answer")

\* handle_text_query. llm_service.chat raises whatever the provider does.
TextRun(zs, store, org_id, user_id, text, model_ok, scan, gen) ==
    LET key == RateKey(org_id, user_id)
        limited == Truthy(org_id)
        res == check_rate_limit(zs[key], org_id, None, None)
        zs1 == IF limited THEN [zs EXCEPT ![key] = CheckPipeline(@)] ELSE zs
        zs2 == IF limited THEN [zs1 EXCEPT ![key] = record_request(@)] ELSE zs
        ops2 == IF limited THEN <<"check_rate_limit", "record_request">>
                ELSE <<>>
        ops3 == Append(ops2, "get_response_cache")
        found == search(store, text, default_search_k, org_id, model_ok, scan)
        r == [response_text |-> GenerationErrorText("AttributeError"),
              search_results |-> found.results,
              org_id |-> org_id, user_id |-> user_id]
    IN IF ~redisUp
       THEN RunEnd(IF limited THEN <<"check_rate_limit">> ELSE ops3,
                   zs, store, "error")
       ELSE IF limited /\ ~res.allowed
       THEN RunEnd(<<"check_rate_limit">>, zs1, store, "error")
       ELSE IF get_response_cache(store, text, org_id) # None
       THEN RunEnd(ops3, zs2, store, "answer")
       ELSE IF MissingOrg(org_id)
       THEN RunEnd(ops3, zs2, store, "error")
       ELSE IF ShouldCache(r.response_text)
       THEN RunEnd(ops3 \o <<"search", "generate", "set_response_cache">>, zs2,
                   set_response_cache(found.kv, text, Payload(r), org_id),
                   "answer")
       ELSE RunEnd(ops3 \o <<"search", "generate">>, zs2, found.kv, "answer")

\* The runs of the two handlers on the state in hand agree for this input.
RunsAgree(org_id, user_id, text, model_ok, gen) ==
    \A scan \in Orderings(CachedRows(kv, text, default_search_k, org_id)) :
        LET v == VoiceRun(zsets, kv, org_id, user_id, text, model_ok, scan, gen)
            t == TextRun(zsets, kv, org_id, user_id, text, model_ok, scan, gen)
        IN /\ v.ops = t.ops
           /\ v.zsets = t.zsets
           /\ v.kv = t.kv
           /\ v.end = t.end

\* C14: the text path is the voice state machine collapsed. On every state,
\* for the same text, organization, user and collaborator outcomes,
\* handle_text_query makes the operations of steps 2-6 of handle_voice_query
\* and leaves the same rate-limit windows and the same store; and a text
\* query that has ended has returned one ChatResponse or raised once.
C14_TextPathIsVoiceCollapsed ==
    /\ \A org_id \in OptOrgs, user_id \in OptUsers, text \in Transcripts,
          model_ok \in BOOLEAN, gen \in GenOutcomes :
         RunsAgree(org_id, user_id, text, model_ok, gen)
    /\ req.kind = "text" =>
         (req.pc = "done" <=> req.out.kind # "none")

----------------------------------------------------------------------------
(* Properties of the generator *)

\* The primary attempt of the last stream_chat failed: the provider failed
\* or the breaker rejected the request.
PrimaryFailed ==
    \/ llm.last.primary_outcome # "answers"
    \/ "primary" \notin Range(llm.last.provider_calls)

ErrorTokensIn(tokens) == {i \in 1..Len(tokens) : tokens[i] = ErrorToken}

\* C15: generator fallback flow. stream_chat tries the primary model first;
\* it tries the fallback model only when the primary attempt failed and
\* enable_fallback_llm is set; when no model it may use answered, its one
\* error token is the last token of the stream, and otherwise the stream
\* has no error token; it never raises.
C15_GeneratorFallbackFlow ==
    llm.last.kind = "result" =>
        LET l == llm.last
            no_answer ==
                /\ PrimaryFailed
                /\ \/ ~settings.enable_fallback_llm
                   \/ l.fallback_outcome # "answers"
        IN /\ l.models[1] = "primary"
           /\ "fallback" \in Range(l.models)
                <=> (PrimaryFailed /\ settings.enable_fallback_llm)
           /\ IF no_answer
              THEN ErrorTokensIn(l.tokens) = {Len(l.tokens)}
              ELSE ErrorTokensIn(l.tokens) = {}
           /\ ~l.raised

\* C15 witness: with the fallback enabled, the primary failed after a token
\* and the fallback failed too: the stream ends with the error token.
C15_Witness ==
    /\ llm.last.kind = "result"
    /\ settings.enable_fallback_llm
    /\ llm.last.models = <<"primary", "fallback">>
    /\ llm.last.tokens = <<<<"O", "K">>, ErrorToken>>

\* C16: circuit breaker trip and reset. After 3 stream_chat calls in a row
\* whose primary request failed, the primary breaker is open; a primary
\* request made while the breaker is open and its 60 s timeout has not
\* elapsed does not reach the provider, and one made after the timeout does;
\* authentication errors leave the failure count as it was.
C16_BreakerTripAndReset ==
    /\ llm.streak >= primary_fail_max => llm.primary.state = "open"
    /\ llm.last.kind = "result" =>
         LET b == llm.last.primary_before
         IN /\ (b.state = "open"
                  /\ llm.last.at < b.opened_at[1] + primary_reset_timeout)
                 => "primary" \notin Range(llm.last.provider_calls)
            /\ (b.state = "open"
                  /\ llm.last.at >= b.opened_at[1] + primary_reset_timeout)
                 => "primary" \in Range(llm.last.provider_calls)
            /\ llm.last.primary_outcome = "AuthenticationError"
                 => llm.primary.fail_counter = b.fail_counter

----------------------------------------------------------------------------
(* Properties of the cache service *)

\* What the get method of the entry's namespace returns now.
CacheGet(w) ==
    CASE w.kind = "response" -> get_response_cache(kv, w.query, w.org_id)
      [] w.kind = "search" -> get_search_cache(kv, w.query, w.org_id)
      [] OTHER -> get_embedding_cache(kv, w.query)

\* The lifetime the caller of the set method asked for.
AskedTtl(w) ==
    IF w.ttl # None THEN w.ttl[1]
    ELSE IF w.kind = "response" THEN 86400 ELSE 3600

\* C17: cache round trip. After a set call for a key, the get call of the
\* same query and organization returns the value set, unchanged, while
\* fewer seconds have passed than the ttl given, and nothing from then on;
\* with no ttl given a response lives 24 h and a search result 1 h; an
\* embedding is returned whatever time has passed.
C17_CacheRoundTrip ==
    \A key \in DOMAIN cacheLog :
        LET w == cacheLog[key]
        IN IF w.kind = "embedding"
           THEN /\ CacheGet(w) = Some(w.value)
                /\ kv[key].expireAt = None
           ELSE /\ now - w.at < AskedTtl(w) => CacheGet(w) = Some(w.value)
                /\ now - w.at >= AskedTtl(w) => CacheGet(w) = None
                /\ w.ttl = None => kv[key].expireAt = Some(w.at + AskedTtl(w))

----------------------------------------------------------------------------
(* Properties of the search service over an edited corpus *)

\* C18: cached search results are re-resolved fresh. A search answered from
\* the search cache takes only the document ids from the cache: each result
\* carries the title and the text the row has now, and its id is one of the
\* cached ids.
C18_CachedSearchResolvedFresh ==
    (lastSearch.kind = "result" /\ lastSearch.path = "cache") =>
        LET cached == RedisGet(kv, SearchKey(lastSearch.query, lastSearch.org_id))
        IN /\ cached # None
           /\ \A i \in 1..Len(lastSearch.results) :
                LET r == lastSearch.results[i]
                IN /\ r.doc_id \in Range(pickle_loads(cached[1]))
                   /\ r.title = docs[r.doc_id].title
                   /\ r.snippet = docs[r.doc_id].text

\* C18 witness: a search answered from the cache returns a document under
\* its new title, with a text that no longer contains the query's term: the
\* row was edited after the search that cached its id.
C18_Witness ==
    /\ lastSearch.kind = "result"
    /\ lastSearch.path = "cache"
    /\ lastSearch.query = <<"hipaa">>
    /\ \E i \in 1..Len(lastSearch.results) :
         /\ lastSearch.results[i].title \in EditTitles
         /\ ~ILike(docs[lastSearch.results[i].doc_id].text, "hipaa")

----------------------------------------------------------------------------
(* Properties of the orchestrator when the query has no embedding *)

\* C19: an embedding failure degrades to an empty search result. When the
\* search of a request could not get the embedding of the query, it returned
\* an empty list without raising and wrote no search-cache entry; the request
\* went on to its generator and, no collaborator having raised, ends with a
\* final event (voice, after the "no relevant documents" status) or a
\* ChatResponse (text).
C19_EmbeddingFailureDegrades ==
    (req.kind \in {"voice", "text"} /\ req.search_path = "no_embedding") =>
        /\ "search" \notin Range(req.raised)
        /\ req.search_results = <<>>
        /\ SearchKey(req.text, req.org_id) \notin DOMAIN kv
        /\ req.kind = "voice" =>
             /\ req.pc \in {"primary", "fallback", "cache_write", "done"}
             /\ \E i \in 1..Len(req.events) :
                  req.events[i] = StatusEvent(
                      "No relevant documents found. Generating response...")
             /\ (req.pc = "done" /\ req.raised = <<>>)
                  => /\ LastEvent(req).type = "final"
                     /\ "stream_chat" \in Range(req.calls)
        /\ req.kind = "text" =>
             /\ "chat" \in Range(req.calls)
             /\ (req.pc = "done" /\ req.raised = <<>>)
                  => req.out.kind = "ChatResponse"

\* C19 witness: a voice query whose search had no embedding ended with the
\* final event after a token.
C19_Witness ==
    /\ req.kind = "voice"
    /\ req.search_path = "no_embedding"
    /\ req.pc = "done"
    /\ req.ntok > 0
    /\ LastEvent(req).type = "final"

\* C20: for every non-empty candidate list whose vectors all parse and have a
\* cosine to the query (no zero vector), every k >= 1 and every lambda,
\* _mmr_rerank returns without raising; the first element is a candidate no
\* other candidate is more similar to the query than; the result has
\* min(k, number of candidates) elements and no candidate twice.
ValidVectors ==
    /\ Norm(mmr.query_vector) # 0
    /\ \A i \in 1..Len(mmr.candidates) :
          /\ mmr.candidates[i].vector # Malformed
          /\ Norm(mmr.candidates[i].vector) # 0

C20_MmrTopOne ==
    (mmr.called /\ mmr.candidates # <<>> /\ ValidVectors /\ mmr.k >= 1) =>
        LET results == mmr.out.results
            q == mmr.query_vector
        IN /\ ~mmr.out.raised
           /\ Len(results) = Min(mmr.k, Len(mmr.candidates))
           /\ \E i \in 1..Len(mmr.candidates) :
                 /\ mmr.candidates[i].id = results[1].id
                 /\ mmr.candidates[i].vector = results[1].vector
           /\ \A i \in 1..Len(mmr.candidates) :
                 ~FGt(Cosine(q, mmr.candidates[i].vector),
                      Cosine(q, results[1].vector))
           /\ \A i, j \in 1..Len(results) :
                 i # j => results[i].id # results[j].id

C20_Witness ==
    /\ mmr.called /\ ValidVectors
    /\ Len(mmr.candidates) = 3 /\ mmr.k = 2 /\ mmr.lambda = 0
    /\ Len(mmr.out.results) = 2
    /\ mmr.out.results[1].id = 3
    /\ mmr.out.results[2].id = 1

\* C21: with lambda = 0.5 and k = 2, for two near-duplicate candidates and one
\* candidate dissimilar to both, in any list order and for any query vector,
\* the result of _mmr_rerank contains the dissimilar candidate and not both
\* duplicates.
ResultIds == {mmr.out.results[s].id : s \in 1..Len(mmr.out.results)}

C21_MmrDiversity ==
    (mmr.called /\ mmr.lambda = 5 /\ mmr.k = 2) =>
        \A i, j, d \in 1..3 :
            DiversityRoles(mmr.candidates, i, j, d) =>
                /\ ~mmr.out.raised
                /\ d \in ResultIds
                /\ ~({i, j} \subseteq ResultIds)

\* C22: for every text longer than chunk_size, with 0 <= overlap < chunk_size,
\* _chunk_text terminates; every chunk is the stripped text of its window,
\* every non-whitespace position of the text lies in the window of a returned
\* chunk, the windows start in text order, and no non-whitespace position lies
\* between two consecutive chunks.
ChunkingCovers ==
    LET text == chunking.text
        windows == chunking.windows
        InWindow(p, w) == windows[w].start <= p /\ p < windows[w].end
    IN /\ Len(chunking.chunks) = Len(windows)
       /\ \A w \in 1..Len(windows) :
             chunking.chunks[w] = Strip(Slice(text, windows[w].start, windows[w].end))
       /\ \A p \in 0..(Len(text) - 1) :
             text[p + 1] # " " => \E w \in 1..Len(windows) : InWindow(p, w)
       /\ \A w \in 1..(Len(windows) - 1) :
             /\ windows[w].start < windows[w + 1].start
             /\ \A p \in windows[w].end..(windows[w + 1].start - 1) :
                   text[p + 1] = " "

C22_ChunkingCoverage ==
    /\ [](chunking.pc = "done" /\ Len(chunking.text) > chunking.chunk_size
             => ChunkingCovers)
    /\ <>(chunking.pc = "done")

C22_Witness ==
    /\ chunking.pc = "done"
    /\ Len(chunking.text) = 6 /\ chunking.chunk_size = 3 /\ chunking.overlap = 1
    /\ Len(chunking.chunks) >= 3
    /\ \E w \in 1..Len(chunking.windows) :
          chunking.windows[w].end - chunking.windows[w].start < chunking.chunk_size

\* C23: when a handler exits, and when a send for its session fails,
\* ConnectionManager holds neither a connection nor an audio buffer for the
\* session id; and a session id the manager does not hold gets a connection or
\* a buffer again only through a connect: events of a voice query in flight
\* and late audio chunks do not re-create it.
Held(m, session_id) ==
    \/ session_id \in DOMAIN m.active_connections
    \/ session_id \in DOMAIN m.audio_buffers

Released(h) ==
    /\ handlers'[h] # handlers[h]
    /\ handlers'[h].last \in {"exit", "send_failed"}

Connected(h) ==
    /\ handlers'[h] # handlers[h]
    /\ handlers'[h].last = "connect"

C23_DisconnectReleasesSession ==
    [][ /\ \A h \in HandlerIds :
             Released(h) => ~Held(manager', handlers[h].session_id)
        /\ \A session_id \in SessionIds :
             (~Held(manager, session_id) /\ Held(manager', session_id)) =>
                 \E h \in HandlerIds :
                     Connected(h) /\ handlers[h].session_id = session_id
      ]_vars

C23_Witness ==
    /\ handlers[1].pc = "streaming" /\ handlers[1].events > 0
    /\ handlers[1].last = "not_connected"
    /\ handlers[2].pc = "exited" /\ handlers[2].session_id = handlers[1].session_id
    /\ ~Held(manager, handlers[1].session_id)

\* C24: under a fair worker loop, every document that has no embeddings and
\* whose chunks can be embedded eventually gets embeddings from the sweep,
\* whatever tasks are queued and however many other documents keep failing.
C24_SweepSelfHeals ==
    \A doc_id \in 1..(SweepLimit + 1) :
        (doc_id \in LiveIds /\ doc_id \in canEmbed
            /\ EmbeddingsOf(embeddings, doc_id) = {})
          ~> (EmbeddingsOf(embeddings, doc_id) # {})

\* C25: when a reindex_org task has run, every embedding row the tenant's
\* documents had before is deleted, every document of the tenant that can be
\* embedded has rows produced by this run, and the rows of the other tenants
\* are unchanged.
Reindexed == lastWork.op = "task" /\ lastWork.type = "reindex_org"
                /\ lastWork.outcome = "completed"

TenantRows(tbl, org_id) == {row \in tbl.rows : docs[row.doc_id].org_id = org_id}

C25_ReindexRebuildsTenant ==
    Reindexed =>
        /\ TenantRows(lastWork.before, lastWork.org_id) \cap embeddings.rows = {}
        /\ \A doc_id \in LiveIds :
              docs[doc_id].org_id = lastWork.org_id /\ doc_id \in canEmbed =>
                 \E row \in EmbeddingsOf(embeddings, doc_id) :
                     row.id >= lastWork.before.next_id
        /\ \A org_id \in Orgs \ {lastWork.org_id} :
              TenantRows(embeddings, org_id) = TenantRows(lastWork.before, org_id)

\* C26: _embed_document on a document that already has embeddings adds,
\* changes and deletes no embedding row and makes no embedding call.
Worked == lastWork.op \in {"task", "sweep"}

C26_EmbedDocumentIdempotent ==
    Worked =>
        \A i \in 1..Len(lastWork.log) :
            LET entry == lastWork.log[i]
            IN EmbeddingsOf(lastWork.before, entry.doc_id) # {} =>
                 /\ entry.calls = 0
                 /\ EmbeddingsOf(embeddings, entry.doc_id)
                      = EmbeddingsOf(lastWork.before, entry.doc_id)
                 /\ (lastWork.op = "task" /\ lastWork.type = "embed_doc")
                      => embeddings = lastWork.before

C26_Witness ==
    /\ lastWork.op = "task" /\ lastWork.type = "embed_doc"
    /\ Len(lastWork.log) = 1 /\ lastWork.log[1].outcome = "skipped"
    /\ Cardinality(EmbeddingsOf(embeddings, lastWork.log[1].doc_id)) > 1


\* C27: check_rate_limit follows the single-window rule.  With n the number of
\* timestamps of the window that are less than 60 s old (an entry of age 60 s
\* or more has expired), the call denies with remaining 0 and reset_seconds =
\* 60 - (now - oldest survivor) when n >= burst, else when n >= rpm; otherwise
\* it allows with remaining = max(0, rpm - n); an empty window allows with
\* reset_seconds 0; and the call adds no timestamp to any window.
Timestamps(z) ==
    IF z.expireAt # None /\ z.expireAt[1] <= now THEN {}
    ELSE {e.score : e \in z.members}

Survivors(z) == {ts \in Timestamps(z) : now - ts < 60}

Oldest(S) == CHOOSE ts \in S : \A other \in S : ts <= other

FollowsWindowRule(window, rpm, burst, result) ==
    LET n == Cardinality(window)
    IN /\ (n >= burst \/ n >= rpm) =>
             /\ ~result.allowed
             /\ result.remaining = 0
             /\ result.reset_time = 60 - (now - Oldest(window))
       /\ (n < burst /\ n < rpm) =>
             /\ result.allowed
             /\ result.remaining = Max(0, rpm - n)
       /\ n = 0 => result.allowed /\ result.reset_time = 0

C27_CheckFollowsWindowRule ==
    [][lastCheck'.kind = "result" =>
         /\ FollowsWindowRule(Survivors(zsets[lastCheck'.key]),
                              lastCheck'.rpm, lastCheck'.burst, lastCheck')
         /\ \A key \in RateKeys :
               {e.score : e \in zsets'[key].members}
                  \subseteq {e.score : e \in zsets[key].members}
      ]_vars

C27_Witness ==
    /\ lastCheck.kind = "result"
    /\ ~lastCheck.allowed
    /\ lastCheck.reset_time = 1
    /\ ZCard(zsets[lastCheck.key]) >= lastCheck.burst

\* C28: after _embed_document has persisted embeddings for a document, and
\* after a reindex of its organization, the response-cache and search-cache
\* entries written for that tenant before are no longer served.
TenantCacheKeys(store, org_id) ==
    {key \in DOMAIN store :
        /\ key[1] \in {"response_cache", "search_cache"}
        /\ key[2] = Str(Some(org_id))
        /\ RedisGet(store, key) # None}

Indexed(org_id) ==
    /\ Worked
    /\ \/ \E i \in 1..Len(lastWork.log) :
             /\ lastWork.log[i].outcome = "embedded"
             /\ docs[lastWork.log[i].doc_id].org_id = org_id
       \/ Reindexed /\ lastWork.reindex = "completed" /\ lastWork.org_id = org_id

C28_IndexingInvalidatesCache ==
    \A org_id \in Orgs :
        Indexed(org_id) =>
            \A key \in TenantCacheKeys(lastWork.kv_before, org_id) :
                RedisGet(kv, key) = None

\* C29: for every embedding row, chunk_text is the trimmed text of the
\* document between chunk_start and chunk_end, and the offsets of the rows of
\* a document embedded in full cover its text.
C29_ChunkOffsetsDescribeChunk ==
    /\ \A row \in embeddings.rows :
          row.chunk_text = Strip(Slice(docs[row.doc_id].text,
                                       row.chunk_start, row.chunk_end))
    /\ \A doc_id \in LiveIds :
          doc_id \in canEmbed /\ EmbeddingsOf(embeddings, doc_id) # {} =>
             \A p \in 0..(Len(docs[doc_id].text) - 1) :
                \E row \in EmbeddingsOf(embeddings, doc_id) :
                    row.chunk_start <= p /\ p < row.chunk_end

\* C30: a task whose record is missing, whose type is unknown or whose
\* processing raises changes nothing but its own record, and every task that
\* is queued with a record is eventually marked completed or failed.
TaskSettled(task_id) ==
    /\ task_id \in DOMAIN taskTable
    /\ taskTable[task_id].status \in {"completed", "failed"}

C30_TasksAreIndependent ==
    /\ \A task_id \in TaskIds :
          (task_id \in Range(queue) /\ task_id \in DOMAIN taskTable)
            ~> TaskSettled(task_id)
    /\ [][\A task_id \in TaskIds :
            (task_id \in inflight /\ task_id \notin inflight') =>
               /\ queue' = queue
               /\ inflight' = inflight \ {task_id}
               /\ \A other \in TaskIds \ {task_id} :
                     /\ other \in DOMAIN taskTable' <=> other \in DOMAIN taskTable
                     /\ other \in DOMAIN taskTable => taskTable'[other] = taskTable[other]
        ]_vars

C30_Witness ==
    /\ lastWork.op = "task" /\ lastWork.task_id = 2
    /\ TaskSettled(2) /\ taskTable[2].status = "completed"
    /\ TaskSettled(1) /\ taskTable[1].status = "failed"

\* C32: when the requests of one (tenant, user) are handled one at a time,
\* the number of requests admitted in any trailing 60-second window never
\* exceeds min(rpm, burst), whatever the arrival times.
AdmissionCap == Min(settings.default_rpm, settings.default_burst)

AdmittedIn(times, window_end) ==
    {i \in 1..Len(times) : window_end - 60 < times[i] /\ times[i] <= window_end}

C32_SequentialAdmissionBound ==
    \A window_end \in Range(recLog[AdmitKey]) \cup {now} :
        Cardinality(AdmittedIn(recLog[AdmitKey], window_end)) <= AdmissionCap

\* C31: requests that interleave their check and record steps may all pass
\* the check before any record lands; when the requests run one after the
\* other, no state has more than the cap of requests admitted within one
\* 60 s window.
AdmittedCallers ==
    {c \in CallerIds : callers[c].pc = "recorded" /\ now - callers[c].recorded_at < 60}

OverAdmitted == Cardinality(AdmittedCallers) > AdmissionCap

C31_InTurnNeverOverAdmits == ~OverAdmitted

\* C33: every text query accepted through the chat route and every accepted
\* voice query has made exactly one check_rate_limit call and exactly one
\* record_request call when it ends.
CallCount(r, name) == Cardinality({i \in 1..Len(r.calls) : r.calls[i] = name})

Accepted ==
    /\ req.pc = "done"
    /\ \/ /\ req.kind = "voice"
          /\ req.events # <<>>
          /\ LastEvent(req).type \in {"final", "chat_response"}
       \/ /\ req.kind = "text" /\ req.route
          /\ req.out.kind = "ChatResponse"

C33_OneChargePerRequest ==
    Accepted =>
        /\ CallCount(req, "check_rate_limit") = 1
        /\ CallCount(req, "record_request") = 1

\* C34: a handler that exits (a failed authentication included) or connects
\* leaves the connection and the audio buffer of every different, established
\* connection as they were, also when that connection uses the same
\* session_id.
Established(h) ==
    /\ handlers[h].pc \in {"receiving", "streaming"}
    /\ ~handlers[h].gone
    /\ handlers[h].session_id \in DOMAIN manager.active_connections
    /\ manager.active_connections[handlers[h].session_id] = h

Untouched(h) ==
    LET session_id == handlers[h].session_id
    IN /\ session_id \in DOMAIN manager'.active_connections
       /\ manager'.active_connections[session_id] = h
       /\ session_id \in DOMAIN manager'.audio_buffers
       /\ manager'.audio_buffers[session_id] = manager.audio_buffers[session_id]

C34_ExitKeepsOtherSessions ==
    [][\A h \in HandlerIds :
         (handlers'[h] # handlers[h] /\ handlers'[h].last \in {"exit", "connect"}) =>
            \A other \in HandlerIds \ {h} : Established(other) => Untouched(other)
      ]_vars

----------------------------------------------------------------------------
(* One model per answer *)

\* The tokens of the last stream_chat call that are model output.
AnswerTokens == SelectSeq(llm.last.tokens, LAMBDA token : token # ErrorToken)

\* The model emitted tokens in the last stream_chat call.
Emitted(model, outcome) ==
    /\ model \in Range(llm.last.provider_calls)
    /\ ProviderTokens(outcome) # <<>>

\* C35: single model attempt per stream. The model output in the token
\* stream of one stream_chat call is the output of one model attempt: a
\* primary model that failed after emitting tokens is never followed by
\* tokens of the fallback model.
C35_SingleModelAttempt ==
    llm.last.kind = "result" =>
        /\ ~(Emitted("primary", llm.last.primary_outcome)
               /\ Emitted("fallback", llm.last.fallback_outcome))
        /\ AnswerTokens \in {<<>>, ProviderTokens(llm.last.primary_outcome),
                             ProviderTokens(llm.last.fallback_outcome)}

----------------------------------------------------------------------------
(* Properties of concurrent indexing *)

\* C36: no double indexing under concurrency. However the _embed_document
\* runs of the tasks and of the sweep interleave, a document has at most one
\* embedding row per chunk.
C36_NoDoubleIndexing ==
    \A doc_id \in 1..Len(docs) :
        \A a, b \in EmbeddingsOf(embeddings, doc_id) :
            a.chunk_start = b.chunk_start => a = b

\* The work of the last task did not succeed: an _embed_document of it
\* raised or generated no embedding, or _reindex_organization raised.
WorkFailed ==
    \/ \E i \in 1..Len(lastWork.log) :
          lastWork.log[i].outcome \in {"raised", "none_generated"}
    \/ "reindex" \in DOMAIN lastWork /\ lastWork.reindex = "raised"

\* C37: a task's status reflects its outcome. A task is marked completed
\* only if the embed_doc or reindex_org work it names succeeded, and a task
\* whose work failed is marked failed with the error recorded.
C37_StatusReflectsOutcome ==
    (lastWork.op = "task" /\ lastWork.task_id \in DOMAIN taskTable) =>
        LET task_data == taskTable[lastWork.task_id]
        IN /\ task_data.status = "completed" => ~WorkFailed
           /\ WorkFailed => (task_data.status = "failed"
                               /\ task_data.error # None)

\* The chunks of the document that have an embedding row.
IndexedChunks(doc_id) ==
    {row.chunk_start : row \in EmbeddingsOf(embeddings, doc_id)}

\* C38: no partially indexed document. A document that has an embedding
\* row has one for every chunk _chunk_text makes of its text.
C38_NoPartialIndex ==
    \A doc_id \in LiveIds :
        EmbeddingsOf(embeddings, doc_id) # {} =>
            \A i \in 1..Len(_chunk_text(docs[doc_id].text,
                                        EmbedChunkSize, EmbedOverlap)) :
                (i - 1) * EmbedChunkSize \in IndexedChunks(doc_id)

----------------------------------------------------------------------------
(* Properties of the caches under a missing organization *)

MissingOrgKeys ==
    {key \in DOMAIN kv : /\ key[1] \in {"response_cache", "search_cache"}
                         /\ key[2] \in {Str(None), Str(Some(0))}}

\* C39: no cache entry without a tenant. No response or search entry of the
\* store is keyed by a missing organization id (None or 0), and neither a
\* voice or text request nor a search without organization id is answered
\* from a cache.
C39_NoCacheWithoutTenant ==
    /\ MissingOrgKeys = {}
    /\ ServedFromCache => Truthy(req.org_id)
    /\ (lastSearch.kind = "result" /\ ~Truthy(lastSearch.org_id))
         => lastSearch.path # "cache"

\* C39 witness: a search without organization id came back empty while the
\* store holds the entry organization 1 cached for the same query.
C39_Witness ==
    /\ lastSearch.kind = "result"
    /\ ~Truthy(lastSearch.org_id)
    /\ lastSearch.path = "empty"
    /\ SearchKey(lastSearch.query, Some(1)) \in DOMAIN kv

----------------------------------------------------------------------------
(* Properties of a search answered from the cache *)

\* The id list the last search found in the search cache.
CachedIds ==
    pickle_loads(RedisGet(kv, SearchKey(lastSearch.query, lastSearch.org_id))[1])

\* The cached ids the search asked the database for and that still exist,
\* in the order of the cached list.
CachedRanking ==
    SelectSeq(Take(CachedIds, lastSearch.k), LAMBDA id : id \in LiveIds)

\* C40: a cache-hit search reproduces the cached ranking. A search answered
\* from the search cache returns the documents of the cached id list that
\* still exist, at most k of them, in the order of the cached list.
C40_CacheHitKeepsRanking ==
    (lastSearch.kind = "result" /\ lastSearch.path = "cache") =>
        /\ Len(lastSearch.results) <= lastSearch.k
        /\ [i \in 1..Len(lastSearch.results) |-> lastSearch.results[i].doc_id]
             = CachedRanking

=============================================================================
